---- MODULE Spec2Model ----
(***************************************************************************)
(* A model of the Instagram crawl-and-persist pipeline:                    *)
(*   - PostStore   : DirectFeedService._initialize_feed_file,              *)
(*                   _append_post_to_file, _save_posts                     *)
(*   - CrawlEngine : DirectFeedService.get_feed and the single-post fetch  *)
(*   - SessionStore: InstagramAuthenticator._save_session, _load_session,  *)
(*                   _try_recover_from_backup, logout                      *)
(*   - SponsoredFilter: DirectFeedService._is_sponsored_post               *)
(*   - PostScorer  : post_scorer.PostScorer                                *)
(*   - Normalizer  : _convert_web_to_api_format followed by _parse_post    *)
(*   - FeedService, UserService: _handle_rate_limit, collect_feed          *)
(*   - InstagramMonitor: start, stop, _monitor_loop, _check_rate_limit,    *)
(*                   check_now                                             *)
(* The specifications share the variables: StoreSpec drives the PostStore  *)
(* operations directly, Spec runs get_feed against a nondeterministic      *)
(* remote endpoint, ResultSpec runs it against a finite feed whose         *)
(* payloads may be malformed, BackoffSpec follows the rate-limit backoff,  *)
(* AuthSpec drives the session files, and SponsorSpec, ScoreSpec and       *)
(* NormalizeSpec apply the pure functions to bounded inputs.  LiveSpec is  *)
(* Spec on a reliable disk with fairness, AgainSpec lets get_feed be       *)
(* called again on the same instance, InterruptSpec adds PostStore calls   *)
(* cut short by an interrupt, StaleSpec lets saved sessions age past 24    *)
(* hours, and SleepSpec follows the time.sleep calls of one pause.         *)
(* CaptionSpec applies _parse_post's accessibility-caption extraction to   *)
(* bounded payloads, ServiceBackoffSpec follows the backoff of FeedService *)
(* and UserService, CollectSpec follows FeedService.collect_feed, and      *)
(* MonitorSpec and RateSpec follow InstagramMonitor: its start/stop life   *)
(* cycle and its request counter shared between threads.                   *)
(***************************************************************************)
EXTENDS Integers, Sequences, FiniteSets, TLC

VARIABLES
    \* constructor parameters of DirectFeedService
    max_posts_per_file, max_retries, retry_delay,
    \* what the surroundings do in this behaviour beyond answering or raising:
    \* "malformed_payloads" when single-post payloads may be ones _parse_post cannot
    \* get through, "finite_feed" when the feed holds at most MaxServed posts,
    \* "reliable_disk" when reading and writing the output file never fails,
    \* "aged_sessions" when a saved session may be used more than 24 hours later
    remote,
    \* wall clock in whole seconds (what strftime("%Y%m%d_%H%M%S") and int(time.time()) see)
    now,
    \* PostStore: the output directory and the service's file fields
    files, current_file, posts_in_current_file,
    \* history of the PostStore calls made (StoreSpec), the posts of the last call,
    \* the fault injected into it and whether it raised to its caller
    hist, lastBatch, lastFault, storeRaised,
    \* get_feed: position and locals
    pc, max_posts, all_posts, next_max_id, retry_count, posts_processed_count,
    post_ids_to_process, processed_posts, cur_post, post_data,
    \* get_feed: the remote request the last step issued ("none" if none), whether a
    \* session-expired signal was received, the rate-limit signals received from the
    \* feed endpoint and the backoff sleeps performed
    lastReq, loginSignal, throttleSignals, backoffs,
    \* get_feed: the media items the feed has served to this call, in the order
    \* served (page order, then position in the page); kept for a finite feed only
    served,
    \* get_feed: how the feed endpoint answered the last page request of this call:
    \* "items", "empty", or the signal it raised ("none" before the first request)
    page_answer,
    \* get_feed: whether the last step issued a remote call without a time.sleep
    \* between it and the remote call before it
    unpaced_call,
    \* SessionStore: primary file, backup directory, the client's settings,
    \* the result of the last _load_session, a write counter for modification times
    session_file, backup_files, client_session, loaded, mtime_clock, authHist,
    \* what the last login_with_session returned, and whether it contacted Instagram;
    \* these results and that of _load_session are kept until the next call that
    \* writes or moves a session file
    login_result, auth_requests,
    \* SessionStore: whether the primary file carries "created_ts"; whether the last
    \* login_with_session found the session older than 24 hours (session_age > 24 in
    \* _load_session), and the first remote call it made ("none" if none)
    created_ts_written, loaded_stale, login_first_call,
    \* _is_sponsored_post: the raw payload handed to it and what the call did
    raw_post, is_sponsored,
    \* PostScorer: the Post object handed to score_post and what the call did
    post_object, scores,
    \* the normalizer: the raw input handed to it (an API payload, or a
    \* shortcode_media with its shortcode) and the records it returned, call by call
    norm_input, normalized,
    \* the pacing code: the pause it was about to make (which of its pauses, and the
    \* seconds drawn for it) and the arguments of the time.sleep calls it made for it
    pause, sleeps,
    \* _parse_post: the raw payload whose accessibility captions it collects, and
    \* the accessibility_captions list of the record it returned
    caption_post, captions_out,
    \* FeedService and UserService: the last _handle_rate_limit call made (which
    \* service, its retry_count argument, the seconds it slept)
    service_sleep,
    \* FeedService.collect_feed: position, the max_posts argument (0 for None),
    \* its local posts_collected, self.processed_posts, the number of posts
    \* _save_posts has written and the number of feed requests made
    collect_pc, collect_max_posts, posts_collected, feed_processed_posts, posts_saved,
    feed_requests,
    \* InstagramMonitor: its fields _running, _thread (the id of the loop thread, or
    \* NoThread), _request_count and _last_reset; the clock datetime.utcnow() reads;
    \* for every thread (the _monitor_loop threads and the thread of a check_now
    \* caller) its position, the _request_count it has read for the increment and
    \* the time its time.sleep(wait_time) ends; and the requests issued to Instagram
    \* by _check_account inside the rate-limit window that began at _last_reset
    _running, _thread, _request_count, _last_reset, utcnow, thread_pc, loaded_count,
    wake_at, window_requests

configVars == <<max_posts_per_file, max_retries, retry_delay, remote>>
storeVars  == <<files, current_file, posts_in_current_file>>
storeObs   == <<hist, lastBatch, lastFault, storeRaised>>
crawlVars  == <<pc, max_posts, all_posts, next_max_id, retry_count, posts_processed_count,
                post_ids_to_process, processed_posts, cur_post, post_data>>
crawlObs   == <<lastReq, loginSignal, throttleSignals, backoffs, served, page_answer,
                unpaced_call>>
authVars   == <<session_file, backup_files, client_session, loaded, mtime_clock, authHist,
                login_result, auth_requests, created_ts_written, loaded_stale,
                login_first_call>>
sleepVars  == <<pause, sleeps>>
pureVars   == <<raw_post, is_sponsored, post_object, scores, norm_input, normalized,
                sleepVars>>
captionVars == <<caption_post, captions_out>>
\* the components modelled on their own
backoffVars == <<service_sleep>>
collectVars == <<collect_pc, collect_max_posts, posts_collected, feed_processed_posts,
                 posts_saved, feed_requests>>
monitorVars == <<_running, _thread, _request_count, _last_reset, utcnow, thread_pc,
                 loaded_count, wake_at, window_requests>>
componentVars == <<captionVars, backoffVars, collectVars, monitorVars>>
vars == <<configVars, componentVars, pureVars, now, storeVars, storeObs, crawlVars, crawlObs,
          authVars>>

----------------------------------------------------------------------------
(* Bounds of the model *)

MaxPerFile == 2        \* max_posts_per_file is drawn from 1..MaxPerFile
MaxClock == 1          \* the clock runs over 0..MaxClock
MaxStoreOps == 3       \* PostStore calls per StoreSpec behaviour
MaxBatch == 2          \* _save_posts batches hold 0..MaxBatch posts
NumIds == 2            \* the feed serves posts with ids 1..NumIds
MaxPosts == 2          \* get_feed is called with max_posts in 0..MaxPosts
MaxRetries == 1        \* max_retries is 0 or MaxRetries
MaxRetryDelay == 4     \* BackoffSpec: retry_delay is drawn from 0..MaxRetryDelay
MaxBackoffRetries == 4 \* BackoffSpec: max_retries is drawn from 0..MaxBackoffRetries
MaxSessions == 2       \* AuthSpec: logins create sessions 1..MaxSessions
MaxSaves == 3          \* AuthSpec: _save_session runs at most MaxSaves times
MaxServed == 2         \* ResultSpec: the feed holds at most MaxServed posts
MaxCaptionLen == 1     \* ScoreSpec: captions of 0..MaxCaptionLen phrases, and the sample caption
MaxFieldsSet == 2      \* SponsorSpec: a raw post carries at most MaxFieldsSet of the fields read
MaxCarousel == 2       \* CaptionSpec: an album carries at most MaxCarousel carousel items
MaxFeedRequests == 3   \* CollectSpec: collect_feed requests the feed at most MaxFeedRequests times
MaxLoopThreads == 2    \* MonitorSpec: start() creates at most MaxLoopThreads threads
MaxUtc == 3            \* MonitorSpec, RateSpec: the monitor's clock runs over 0..MaxUtc
MaxRequestCount == 2   \* MonitorSpec, RateSpec: no check begins once _request_count is above it

----------------------------------------------------------------------------
(* Helpers *)

Range(s) == {s[i] : i \in 1..Len(s)}

IsPrefix(s, t) == Len(s) <= Len(t) /\ \A i \in 1..Len(s) : s[i] = t[i]

\* writing a file name into a directory: creates the entry or replaces its content
Put(dir, name, content) ==
    [f \in DOMAIN dir \cup {name} |-> IF f = name THEN content ELSE dir[f]]

\* an optional value: None, or a value that is present (Optional[str],
\* Optional[List[str]], a dictionary key that may be missing)
None == [none |-> TRUE, value |-> <<>>]
Some(v) == [none |-> FALSE, value |-> v]

----------------------------------------------------------------------------
(* PostStore *)

NoFile == <<"none", 0>>
\* f"{username}_feed_posts_{session_id}_{timestamp}.json": username and session_id are
\* fixed for one service instance, so the timestamp alone tells two names apart
FeedName(t) == <<"feed", t>>
\* f"{username}_feed_posts_{session_id}_fallback_{timestamp}.json"
FallbackName(t) == <<"fallback", t>>

\* {"collector_info": {...}, "posts": []} as written by json.dump
EmptyFile == [valid |-> TRUE, posts |-> <<>>]
\* what open(..., "w") followed by a failing json.dump leaves behind
BrokenFile == [valid |-> FALSE, posts |-> <<>>]

\* the I/O faults the environment can inject into the try block: "fail" is a read
\* (or an open for writing) that raises and leaves the file as it was, "dump" is a
\* json.dump that raises after open(..., "w") has truncated the file.  Writes
\* outside the try block (a new file's header, the fallback file) are taken to succeed.
Faults == {"none", "fail", "dump"}

Store == [files |-> files, current_file |-> current_file,
          posts_in_current_file |-> posts_in_current_file, raised |-> FALSE]

\* with open(self.current_file, "r") ...: json.load succeeds
Readable(st, fault) ==
    /\ fault # "fail"
    /\ st.current_file \in DOMAIN st.files
    /\ st.files[st.current_file].valid

\* the try block shared by _append_post_to_file and _save_posts: load, extend,
\* write back, update the count.  Returns the store and whether the block raised.
LoadExtendWrite(st, posts, fault) ==
    IF ~Readable(st, fault) THEN [st EXCEPT !.raised = TRUE]
    ELSE IF fault = "dump"
         THEN [st EXCEPT !.files = Put(st.files, st.current_file, BrokenFile),
                         !.raised = TRUE]
    ELSE LET new == st.files[st.current_file].posts \o posts
         IN [st EXCEPT !.files = Put(st.files, st.current_file,
                                      [valid |-> TRUE, posts |-> new]),
                       !.posts_in_current_file = Len(new)]

_initialize_feed_file(st, t) ==
    [st EXCEPT !.files = Put(st.files, FeedName(t), EmptyFile),
               !.current_file = FeedName(t),
               !.posts_in_current_file = 0]

\* self._create_recovery_file is called but DirectFeedService defines no such
\* method: the call raises AttributeError out of _append_post_to_file
_create_recovery_file(st, posts) == [st EXCEPT !.raised = TRUE]

_append_post_to_file(st, post, fault, t) ==
    LET s1 == IF st.current_file = NoFile THEN _initialize_feed_file(st, t) ELSE st
        s2 == LoadExtendWrite(s1, <<post>>, fault)
    IN IF s2.raised THEN _create_recovery_file([s2 EXCEPT !.raised = FALSE], <<post>>)
       ELSE s2

\* the rotation test of _save_posts
NeedsNewFile(st) ==
    st.current_file = NoFile \/ st.posts_in_current_file >= max_posts_per_file

_save_posts(st, posts, fault, t) ==
    IF posts = <<>> THEN st
    ELSE LET s1 == IF NeedsNewFile(st) THEN _initialize_feed_file(st, t) ELSE st
             s2 == LoadExtendWrite(s1, posts, fault)
         IN IF s2.raised
            THEN [s2 EXCEPT !.files = Put(s2.files, FallbackName(t),
                                          [valid |-> TRUE, posts |-> posts]),
                            !.raised = FALSE]
            ELSE s2

----------------------------------------------------------------------------
(* StoreSpec: the PostStore operations called directly, in any order, with any   *)
(* batch, at any clock second, with or without an I/O fault on the current file. *)

MkPost(id, src) == [post_id |-> id, src |-> src]

\* the posts handed to PostStore so far are numbered 1, 2, ... in call order
Handed == LET RECURSIVE Sum(_)
              Sum(h) == IF h = <<>> THEN 0 ELSE h[1].n + Sum(Tail(h))
          IN Sum(hist)

NewBatch(n) == [i \in 1..n |-> MkPost(Handed + i, "mobile")]

SetStore(st) ==
    /\ files' = st.files
    /\ current_file' = st.current_file
    /\ posts_in_current_file' = st.posts_in_current_file
    /\ storeRaised' = st.raised

StoreIdle ==
    /\ Len(hist) < MaxStoreOps
    /\ hist # <<>> => hist[Len(hist)].op # "interrupted"

\* _initialize_feed_file as get_feed calls it: after time.sleep(initial_delay) with
\* initial_delay = random.uniform(5, 15), so in a later second than any earlier call
CallInitialize ==
    /\ StoreIdle
    /\ now < MaxClock
    /\ now' = now + 1
    /\ SetStore(_initialize_feed_file(Store, now'))
    /\ hist' = Append(hist, [op |-> "init", n |-> 0, fault |-> "none"])
    /\ lastBatch' = <<>>
    /\ lastFault' = "none"
    /\ UNCHANGED <<configVars, componentVars, pureVars, crawlVars, crawlObs, authVars>>

CallAppendOne ==
    /\ StoreIdle
    /\ \E fault \in Faults :
          LET b == NewBatch(1) IN
          /\ SetStore(_append_post_to_file(Store, b[1], fault, now))
          /\ hist' = Append(hist, [op |-> "append_one", n |-> 1, fault |-> fault])
          /\ lastBatch' = b
          /\ lastFault' = fault
    /\ UNCHANGED <<configVars, componentVars, pureVars, now, crawlVars, crawlObs, authVars>>

CallSavePosts ==
    /\ StoreIdle
    /\ \E n \in 0..MaxBatch, fault \in Faults :
          LET b == NewBatch(n) IN
          /\ n = 0 => fault = "none"
          /\ SetStore(_save_posts(Store, b, fault, now))
          /\ hist' = Append(hist, [op |-> "append", n |-> n, fault |-> fault])
          /\ lastBatch' = b
          /\ lastFault' = fault
    /\ UNCHANGED <<configVars, componentVars, pureVars, now, crawlVars, crawlObs, authVars>>

Tick ==
    /\ now < MaxClock
    /\ now' = now + 1
    /\ UNCHANGED <<configVars, componentVars, pureVars, storeVars, storeObs, crawlVars, crawlObs, authVars>>

StoreNext == CallInitialize \/ CallAppendOne \/ CallSavePosts \/ Tick

\* where the process can be stopped (KeyboardInterrupt, kill) inside the try block
\* of _append_post_to_file and _save_posts: before open(..., "w"), between
\* open(..., "w") and the end of json.dump, or after the file has been closed
InterruptPoints == {"before_write", "during_write", "after_write"}

\* the try block stopped at a point: open(..., "w") has emptied the file when the
\* process stops during the write; nothing after the point runs, neither the count
\* update nor an except block (KeyboardInterrupt is not an Exception)
InterruptedWrite(st, posts, point) ==
    IF ~Readable(st, "none") \/ point = "before_write" THEN st
    ELSE IF point = "during_write"
         THEN [st EXCEPT !.files = Put(st.files, st.current_file, BrokenFile)]
    ELSE [st EXCEPT !.files = Put(st.files, st.current_file,
                                  [valid |-> TRUE,
                                   posts |-> st.files[st.current_file].posts \o posts])]

\* _append_post_to_file or _save_posts stopped inside its try block; the process
\* makes no call after that
CallInterrupted ==
    /\ StoreIdle
    /\ \E op \in {"append_one", "append"}, n \in 1..MaxBatch, point \in InterruptPoints :
          LET b == NewBatch(n)
              s1 == IF op = "append_one"
                    THEN IF Store.current_file = NoFile
                         THEN _initialize_feed_file(Store, now) ELSE Store
                    ELSE IF NeedsNewFile(Store)
                         THEN _initialize_feed_file(Store, now) ELSE Store
          IN /\ op = "append_one" => n = 1
             /\ SetStore(InterruptedWrite(s1, b, point))
             /\ hist' = Append(hist, [op |-> "interrupted", n |-> n, fault |-> point])
             /\ lastBatch' = b
             /\ lastFault' = point
    /\ UNCHANGED <<configVars, componentVars, pureVars, now, crawlVars, crawlObs, authVars>>

InterruptNext == StoreNext \/ CallInterrupted

----------------------------------------------------------------------------
(* CrawlEngine: DirectFeedService.get_feed.  One action per remote call; the   *)
(* remote endpoint answers each call with any response or any error signal.    *)

\* str(post_data.get("pk", "")) of a payload without a pk
EmptyId == 0
\* a feed item without a "media_or_ad" key
NoMedia == 0
\* next_max_id is None
NoCursor == 0
Cursors == {NoCursor, 1}

\* request_count = random.randint(1, 2): a page is asked to hold at most 2 items
RequestCountMax == 2
\* retry_delay: int = 10
DefaultRetryDelay == 10

Pages == UNION {[1..n -> {NoMedia} \cup (1..NumIds)] : n \in 0..RequestCountMax}

\* the signals a remote call can raise (instagrapi.exceptions), "other" being any
\* exception that is none of the four
Signals == {"ClientThrottledError", "LoginRequired", "ClientConnectionError",
            "ClientError", "other"}

\* the while condition of get_feed, and where an iteration starts
\* a loop that tests <= runs one iteration too many
WhileCondition_OffByOne(count, maxp) == count <= maxp

WhileCondition(count, maxp) == count < maxp

LoopHead(count, queue) ==
    IF ~WhileCondition(count, max_posts) THEN "done"
    ELSE IF queue = <<>> THEN "page" ELSE "m1"

\* an end of iteration that does not test for a missing cursor
EndOfIteration_IgnoresCursor(count, queue, cursor) == LoopHead(count, queue)

\* the two tests that end an iteration of the loop body
EndOfIteration(count, queue, cursor) ==
    IF queue = <<>> /\ cursor = NoCursor THEN "done" ELSE LoopHead(count, queue)

\* for item in items: skip items without media and already processed posts
ExtractIds(items, processed) ==
    SelectSeq(items, LAMBDA id : id # NoMedia /\ id \notin processed)

\* a backoff whose exponent is the retry count itself
_handle_rate_limit_WrongExponent(rc) == retry_delay * (2 ^ rc)

\* delay = self.retry_delay * (2 ** (retry_count - 1))
_handle_rate_limit(rc) == retry_delay * (2 ^ (rc - 1))

\* a test with >= gives up one retry early
RetriesExceeded_OffByOne(rc) == rc >= max_retries

\* if retry_count > self.max_retries: break
RetriesExceeded(rc) == rc > max_retries

\* a payload as _fetch_single_post_info returns it: its "pk" and "code", the method
\* that supplied it, whether _is_sponsored_post holds of the payload as the endpoint
\* sent it, and whether the try block of _parse_post gets through it (it does not
\* when, say, "user" is None or "taken_at" is not a number)
\* "taken_at" is the epoch second 0 unless set otherwise.
Payload(pk, code, fmt, sponsored, parseable) ==
    [pk |-> pk, code |-> code, fmt |-> fmt, sponsored |-> sponsored,
     parseable |-> parseable, taken_at |-> 0]

\* user_info["graphql"]["shortcode_media"] of the web endpoint: its optional
\* "taken_at_timestamp", its is_ad flag, whether _parse_post gets through what is
\* made of it, and whether _convert_web_to_api_format gets through it
WebMedia(taken_at_timestamp, is_ad, parseable, converts) ==
    [taken_at_timestamp |-> taken_at_timestamp, is_ad |-> is_ad,
     parseable |-> parseable, converts |-> converts]

\* _convert_web_to_api_format at clock second t: "id" but no "pk", "code":
\* shortcode, "taken_at": web_media.get("taken_at_timestamp", int(time.time()));
\* when building the dictionary raises, web_media itself is returned ("web_raw":
\* neither "pk" nor "code" nor "taken_at")
_convert_web_to_api_format(web_media, shortcode, t) ==
    IF web_media.converts
    THEN [Payload(EmptyId, shortcode, "web", web_media.is_ad, web_media.parseable)
            EXCEPT !.taken_at = IF web_media.taken_at_timestamp.none THEN t
                                ELSE web_media.taken_at_timestamp.value]
    ELSE Payload(EmptyId, EmptyId, "web_raw", web_media.is_ad, web_media.parseable)

\* a _parse_post whose except block returns the id and the error only
_parse_post_WithoutRawData(raw) ==
    IF raw.parseable
    THEN [post_id |-> raw.pk, shortcode |-> raw.code, taken_at |-> <<"iso", raw.taken_at>>]
    ELSE [post_id |-> raw.pk, error |-> "Failed to parse"]

\* _parse_post: post_id = str(post_data.get("pk", "")), "shortcode":
\* post_data.get("code", "") and "taken_at": the ISO form of
\* post_data.get("taken_at", 0).  The mobile endpoints and media_info.dict() carry pk;
\* the dictionary built by _convert_web_to_api_format has "id" but no "pk".  When
\* the try block raises, the except block returns post_id, "error" and "raw_data".
_parse_post(raw) ==
    IF raw.parseable
    THEN [post_id |-> raw.pk, shortcode |-> raw.code, taken_at |-> <<"iso", raw.taken_at>>]
    ELSE [post_id |-> raw.pk, error |-> "Failed to parse", raw_data |-> raw]

\* _fetch_single_post_info returned None / nothing fetched yet
NoData == Payload(EmptyId, EmptyId, "none", FALSE, TRUE)

get_feed ==
    /\ pc = "idle"
    /\ now < MaxClock
    /\ \E mp \in 0..MaxPosts :
          /\ max_posts' = mp
          /\ pc' = IF WhileCondition(0, mp) THEN "page" ELSE "done"
    /\ all_posts' = <<>>
    /\ next_max_id' = NoCursor
    /\ retry_count' = 0
    /\ posts_processed_count' = 0
    /\ post_ids_to_process' = <<>>
    /\ now' = now + 1
    /\ SetStore(_initialize_feed_file(Store, now'))
    /\ lastReq' = "none"
    /\ served' = <<>>
    /\ page_answer' = "none"
    /\ unpaced_call' = FALSE
    /\ UNCHANGED <<configVars, componentVars, pureVars, hist, lastBatch, lastFault, processed_posts, cur_post,
                   post_data, loginSignal, throttleSignals, backoffs, authVars>>

\* the steps of the loop body leave these alone
CrawlFrame == UNCHANGED <<configVars, componentVars, pureVars, now, hist, lastBatch, max_posts, authVars>>

\* leaving the loop body towards pc value p: an iteration that starts by
\* processing a queued post pops it
Goto(p, queue) ==
    /\ pc' = p
    /\ IF p = "m1"
       THEN cur_post' = Head(queue) /\ post_ids_to_process' = Tail(queue)
       ELSE cur_post' = cur_post /\ post_ids_to_process' = queue
    /\ post_data' = NoData

\* a page request that resets the retry count when it succeeds
PageOk_ResetsRetryCount ==
    /\ pc = "page"
    /\ \E items \in Pages, cursor \in Cursors :
          LET media == SelectSeq(items, LAMBDA id : id # NoMedia) IN
          /\ "finite_feed" \in remote => Len(served) + Len(media) <= MaxServed
          /\ served' = IF "finite_feed" \in remote THEN served \o media ELSE served
          /\ page_answer' = IF items = <<>> THEN "empty" ELSE "items"
          /\ IF items = <<>>
             THEN /\ Goto("done", post_ids_to_process)
                  /\ next_max_id' = next_max_id
             ELSE LET queue == ExtractIds(items, processed_posts) IN
                  /\ next_max_id' = cursor
                  /\ Goto(IF queue # <<>> THEN "m1"
                          ELSE EndOfIteration(posts_processed_count, queue, cursor), queue)
    /\ retry_count' = 0
    /\ lastReq' = "feed"
    /\ unpaced_call' = FALSE
    /\ UNCHANGED <<storeVars, lastFault, storeRaised, all_posts,
                   posts_processed_count, processed_posts,
                   loginSignal, throttleSignals, backoffs>>
    /\ CrawlFrame

\* feed_response = self.client.private_request("feed/timeline/", request_params)
PageOk ==
    /\ pc = "page"
    /\ \E items \in Pages, cursor \in Cursors :
          LET media == SelectSeq(items, LAMBDA id : id # NoMedia) IN
          /\ "finite_feed" \in remote => Len(served) + Len(media) <= MaxServed
          /\ served' = IF "finite_feed" \in remote THEN served \o media ELSE served
          /\ page_answer' = IF items = <<>> THEN "empty" ELSE "items"
          /\ IF items = <<>>
             THEN /\ Goto("done", post_ids_to_process)
                  /\ next_max_id' = next_max_id
             ELSE LET queue == ExtractIds(items, processed_posts) IN
                  /\ next_max_id' = cursor
                  /\ Goto(IF queue # <<>> THEN "m1"
                          ELSE EndOfIteration(posts_processed_count, queue, cursor), queue)
    /\ lastReq' = "feed"
    /\ unpaced_call' = FALSE
    /\ UNCHANGED <<storeVars, lastFault, storeRaised, all_posts, retry_count,
                   posts_processed_count, processed_posts,
                   loginSignal, throttleSignals, backoffs>>
    /\ CrawlFrame

\* except ClientThrottledError
PageThrottled ==
    /\ pc = "page"
    /\ throttleSignals' = throttleSignals + 1
    /\ retry_count' = retry_count + 1
    /\ IF RetriesExceeded(retry_count')
       THEN /\ Goto("done", post_ids_to_process)
            /\ backoffs' = backoffs
       ELSE /\ backoffs' = Append(backoffs, _handle_rate_limit(retry_count'))
            /\ Goto(LoopHead(posts_processed_count, post_ids_to_process),
                    post_ids_to_process)
    /\ lastReq' = "feed"
    /\ unpaced_call' = FALSE
    /\ UNCHANGED <<storeVars, lastFault, storeRaised, all_posts, next_max_id,
                   posts_processed_count, processed_posts, loginSignal>>
    /\ UNCHANGED served
    /\ page_answer' = "ClientThrottledError"
    /\ CrawlFrame

\* except LoginRequired: raise InstagramAuthError(...)
PageLoginRequired ==
    /\ pc = "page"
    /\ page_answer' = "LoginRequired"
    /\ loginSignal' = TRUE
    /\ Goto("raised", post_ids_to_process)
    /\ lastReq' = "feed"
    /\ unpaced_call' = FALSE
    /\ UNCHANGED <<storeVars, lastFault, storeRaised, all_posts, next_max_id, retry_count,
                   posts_processed_count, processed_posts, throttleSignals, backoffs>>
    /\ UNCHANGED served
    /\ CrawlFrame

\* the signals of a page request that get_feed answers with a sleep and "continue"
PageErrors == {"ClientConnectionError", "ClientError", "other"}

\* an error handler that counts the error as a retry, as the throttling handler does
PageError_CountsRetry ==
    /\ pc = "page"
    /\ page_answer' \in PageErrors
    /\ retry_count' = retry_count + 1
    /\ Goto(IF RetriesExceeded(retry_count') THEN "done"
            ELSE LoopHead(posts_processed_count, post_ids_to_process), post_ids_to_process)
    /\ lastReq' = "feed"
    /\ unpaced_call' = FALSE
    /\ UNCHANGED <<storeVars, lastFault, storeRaised, all_posts, next_max_id,
                   posts_processed_count, processed_posts,
                   loginSignal, throttleSignals, backoffs, served>>
    /\ CrawlFrame

\* except ClientConnectionError / ClientError / Exception: sleep, continue
PageError ==
    /\ pc = "page"
    /\ page_answer' \in PageErrors
    /\ Goto(LoopHead(posts_processed_count, post_ids_to_process), post_ids_to_process)
    /\ lastReq' = "feed"
    /\ unpaced_call' = FALSE
    /\ UNCHANGED <<storeVars, lastFault, storeRaised, all_posts, next_max_id, retry_count,
                   posts_processed_count, processed_posts,
                   loginSignal, throttleSignals, backoffs>>
    /\ UNCHANGED served
    /\ CrawlFrame

\* the answers of a single-post endpoint: a payload, a payload that _parse_post
\* cannot get through, a payload that _is_sponsored_post flags, a response without
\* items, or a signal
FetchOutcomes == {"item", "malformed", "sponsored", "empty"} \cup Signals

\* a step of _fetch_single_post_info or _enrich_post_data: only pc, post_data,
\* the queue position and the observation of the remote call change
FetchFrame ==
    /\ UNCHANGED <<storeVars, lastFault, storeRaised, all_posts, next_max_id, retry_count,
                   posts_processed_count, processed_posts, throttleSignals, backoffs,
                   served, page_answer>>
    /\ CrawlFrame

\* _fetch_single_post_info hands a payload to get_feed
Fetched(data) ==
    /\ pc' = "enrich"
    /\ post_data' = data
    /\ UNCHANGED <<cur_post, post_ids_to_process>>

\* the next fallback method is tried: every exception of a method is caught by
\* its own "except Exception"
NextMethod(p) ==
    /\ pc' = p
    /\ UNCHANGED <<cur_post, post_ids_to_process, post_data>>

\* _fetch_single_post_info returns None: if post_data: is skipped, the
\* iteration ends after _ultra_realistic_browsing()
FetchedNothing ==
    Goto(EndOfIteration(posts_processed_count, post_ids_to_process, next_max_id),
         post_ids_to_process)

\* Method 1: self.client.private_request(f"media/{post_id}/info/", {}), after
\* time.sleep(click_delay)
FetchMobile ==
    /\ pc = "m1"
    /\ \E out \in FetchOutcomes :
          /\ out = "malformed" => "malformed_payloads" \in remote
          /\ loginSignal' = (loginSignal \/ out = "LoginRequired")
          /\ CASE out \in {"item", "malformed"} ->
                      Fetched(Payload(cur_post, cur_post, "mobile", FALSE, out = "item"))
               [] out = "sponsored" -> FetchedNothing
               [] OTHER -> NextMethod("m2")
    /\ lastReq' = "media_info"
    /\ unpaced_call' = FALSE
    /\ FetchFrame

\* Method 2: self.client.private_request(f"api/v1/media/{post_code}/info/", {}),
\* issued straight after method 1 has failed, as methods 3 and 4 are after the
\* method before them
FetchGraph ==
    /\ pc = "m2"
    /\ \E out \in FetchOutcomes :
          /\ out = "malformed" => "malformed_payloads" \in remote
          /\ loginSignal' = (loginSignal \/ out = "LoginRequired")
          /\ CASE out \in {"item", "malformed"} ->
                      Fetched(Payload(cur_post, cur_post, "mobile", FALSE, out = "item"))
               [] out = "sponsored" -> FetchedNothing
               [] OTHER -> NextMethod("m3")
    /\ lastReq' = "media_info_v1"
    /\ unpaced_call' = TRUE
    /\ FetchFrame

\* Method 3: self.client.public_request(f"p/{post_code}/", ...), converted by
\* _convert_web_to_api_format; _is_sponsored_post is not called on this path, so a
\* shortcode_media with is_ad set is converted and returned like any other.  On a
\* malformed shortcode_media either the conversion succeeds and _parse_post fails
\* later, or the conversion raises and shortcode_media itself is returned.  The
\* shortcode_media served to get_feed carries its taken_at_timestamp.
FetchWeb ==
    /\ pc = "m3"
    /\ \E out \in FetchOutcomes, converts \in BOOLEAN :
          /\ out = "malformed" => "malformed_payloads" \in remote
          /\ out # "malformed" => converts
          /\ loginSignal' = (loginSignal \/ out = "LoginRequired")
          /\ IF out \in {"item", "sponsored", "malformed"}
             THEN Fetched(_convert_web_to_api_format(
                              WebMedia(Some(0), out = "sponsored",
                                       out # "malformed" \/ ~converts, converts),
                              cur_post, now))
             ELSE NextMethod("m4")
    /\ lastReq' = "web"
    /\ unpaced_call' = TRUE
    /\ FetchFrame

\* Method 4: self.client.media_info_by_code(post_code).dict(); _is_sponsored_post is
\* not called on this path, and the dictionary of a Media object has a
\* sponsor_tags list
FetchBuiltin ==
    /\ pc = "m4"
    /\ \E out \in {"item", "malformed", "sponsored"} \cup Signals :
          /\ out = "malformed" => "malformed_payloads" \in remote
          /\ loginSignal' = (loginSignal \/ out = "LoginRequired")
          /\ CASE out \in {"item", "malformed"} ->
                      Fetched(Payload(cur_post, cur_post, "builtin", FALSE, out = "item"))
               [] out = "sponsored" ->
                      Fetched(Payload(cur_post, cur_post, "builtin", TRUE, TRUE))
               [] OTHER -> FetchedNothing
    /\ lastReq' = "builtin"
    /\ unpaced_call' = TRUE
    /\ FetchFrame

\* _enrich_post_data: with some probability it requests comments, likes or the
\* author's profile; every exception is caught inside it and the payload's
\* identity is not changed.  It sleeps before the first request of each kind; when
\* that request raises, the fallback endpoint is requested straight away.
Enrich ==
    /\ pc = "enrich"
    /\ \E out \in {"no_request", "ok"} \cup Signals :
          /\ loginSignal' = (loginSignal \/ out = "LoginRequired")
          /\ lastReq' = IF out = "no_request" THEN "none" ELSE "enrich"
          /\ unpaced_call' = (out \in Signals)
    /\ NextMethod("collect")
    /\ FetchFrame

\* what open, json.load and json.dump can do to _append_post_to_file in get_feed
DiskFaults == IF "reliable_disk" \in remote THEN {"none"} ELSE Faults

\* parsed_post = self._parse_post(post_data); all_posts.append(parsed_post);
\* self.processed_posts.add(post_id); posts_processed_count += 1;
\* self._append_post_to_file(parsed_post); if posts_processed_count >= max_posts: break
CollectPost ==
    /\ pc = "collect"
    /\ \E fault \in DiskFaults :
          LET parsed == _parse_post(post_data)
              count == posts_processed_count + 1
              st == _append_post_to_file(Store, parsed, fault, now)
          IN /\ all_posts' = Append(all_posts, parsed)
             /\ processed_posts' = processed_posts \cup {cur_post}
             /\ posts_processed_count' = count
             /\ SetStore(st)
             /\ Goto(IF st.raised THEN LoopHead(count, post_ids_to_process)
                     ELSE IF count >= max_posts THEN "done"
                     ELSE EndOfIteration(count, post_ids_to_process, next_max_id),
                     post_ids_to_process)
    /\ lastReq' = "none"
    /\ unpaced_call' = FALSE
    /\ UNCHANGED <<lastFault, next_max_id, retry_count, loginSignal, throttleSignals,
                   backoffs, served, page_answer>>
    /\ CrawlFrame

\* return all_posts, or InstagramAuthError reaching the caller: the service
\* instance is idle again and keeps its fields
Return ==
    /\ pc \in {"done", "raised"}
    /\ pc' = "idle"
    /\ UNCHANGED <<configVars, componentVars, pureVars, now, storeVars, storeObs, max_posts, all_posts,
                   next_max_id, retry_count, posts_processed_count, post_ids_to_process,
                   processed_posts, cur_post, post_data, crawlObs, authVars>>

CrawlNext ==
    \/ get_feed
    \/ PageOk \/ PageThrottled \/ PageLoginRequired \/ PageError
    \/ FetchMobile \/ FetchGraph \/ FetchWeb \/ FetchBuiltin
    \/ Enrich \/ CollectPost

----------------------------------------------------------------------------
(* SessionStore: InstagramAuthenticator.  A session is identified by a number;   *)
(* a file holds a session, or is not valid JSON after a write that was cut short. *)

\* _load_session returns None
NoSession == 0
\* class SessionError(InstagramAuthError): the outcome of a call that raises it
SessionErrorRaised == -1

MissingFile == [exists |-> FALSE, valid |-> FALSE, data |-> NoSession, mtime |-> 0]

SessionFile(data, m) == [exists |-> TRUE, valid |-> TRUE, data |-> data, mtime |-> m]
\* a file whose json.dump was cut short
TruncatedFile(m) == [exists |-> TRUE, valid |-> FALSE, data |-> NoSession, mtime |-> m]

\* os.path.join(self.backup_dir, f"session_{timestamp}.json")
BackupName(t) == <<"session", t>>
\* os.path.join(self.backup_dir, f"session_logout_{timestamp}.json")
LogoutBackupName(t) == <<"session_logout", t>>

AuthStore == [session_file |-> session_file, backup_files |-> backup_files,
              mtime_clock |-> mtime_clock, created_ts_written |-> created_ts_written]

\* _save_session: dump_settings(session_file), dump_settings(backup_file), then the
\* primary file is rewritten with created_ts.  crash is where the process is killed:
\* "none", or inside the first or the second dump_settings.  What dump_settings
\* writes has no "created_ts" key.
_save_session(a, data, t, crash) ==
    LET m == a.mtime_clock IN
    IF crash = "primary"
    THEN [a EXCEPT !.session_file = TruncatedFile(m + 1), !.mtime_clock = m + 1,
                   !.created_ts_written = FALSE]
    ELSE IF crash = "backup"
    THEN [a EXCEPT !.session_file = SessionFile(data, m + 1),
                   !.backup_files = Put(a.backup_files, BackupName(t), TruncatedFile(m + 2)),
                   !.mtime_clock = m + 2,
                   !.created_ts_written = FALSE]
    ELSE [a EXCEPT !.session_file = SessionFile(data, m + 3),
                   !.backup_files = Put(a.backup_files, BackupName(t), SessionFile(data, m + 2)),
                   !.mtime_clock = m + 3,
                   !.created_ts_written = TRUE]

\* an implementation that recovers from the oldest backup
LatestBackup_Oldest(dir) ==
    CHOOSE f \in DOMAIN dir : \A g \in DOMAIN dir : dir[g].mtime >= dir[f].mtime

\* latest_backup = max(backup_files, key=lambda p: p.stat().st_mtime)
LatestBackup(dir) ==
    CHOOSE f \in DOMAIN dir : \A g \in DOMAIN dir : dir[g].mtime <= dir[f].mtime

\* a recovery that raises SessionError when there is no backup to recover from
_try_recover_from_backup_Raises(dir) ==
    IF DOMAIN dir = {} THEN SessionErrorRaised
    ELSE LET latest == dir[LatestBackup(dir)]
         IN IF latest.valid THEN latest.data ELSE NoSession

\* a recovery whose lookup leaves out the copies logout makes
_try_recover_from_backup_SkipsLogoutCopies(dir) ==
    LET saved == [f \in {g \in DOMAIN dir : g[1] = "session"} |-> dir[f]] IN
    IF DOMAIN saved = {} THEN NoSession
    ELSE LET latest == saved[LatestBackup(saved)]
         IN IF latest.valid THEN latest.data ELSE NoSession

\* backup_path.glob("session_*.json") matches session_{timestamp}.json and
\* session_logout_{timestamp}.json alike.
\* self.client.load_settings(path): raises on a file that is not valid JSON
_try_recover_from_backup(dir) ==
    IF DOMAIN dir = {} THEN NoSession
    ELSE LET latest == dir[LatestBackup(dir)]
         IN IF latest.valid THEN latest.data ELSE NoSession

_load_session(a) ==
    IF ~a.session_file.exists THEN _try_recover_from_backup(a.backup_files)
    ELSE IF ~a.session_file.valid THEN _try_recover_from_backup(a.backup_files)
    ELSE a.session_file.data

\* logout: os.rename(self.session_file, backup_file) when the primary file exists
logout(a, t) ==
    IF a.session_file.exists
    THEN [a EXCEPT !.backup_files = Put(a.backup_files, LogoutBackupName(t), a.session_file),
                   !.session_file = MissingFile,
                   !.created_ts_written = FALSE]
    ELSE a

SetAuth(a) ==
    /\ session_file' = a.session_file
    /\ backup_files' = a.backup_files
    /\ mtime_clock' = a.mtime_clock
    /\ created_ts_written' = a.created_ts_written

NotAuth == UNCHANGED <<configVars, componentVars, pureVars, storeVars, storeObs, crawlVars, crawlObs>>

\* _save_session() and logout() return None: after them nothing is left of
\* what an earlier _load_session() or login_with_session() call returned
ObservationsCleared ==
    /\ loaded' = NoSession
    /\ login_result' = "none"
    /\ auth_requests' = FALSE
    /\ loaded_stale' = FALSE
    /\ login_first_call' = "none"

\* login(): a fresh login gives the client a new session, a login through the
\* saved session keeps it; both end in self._save_session().  client_session is
\* the session last issued to the client, also after a save that was cut short.
SaveSession ==
    /\ authHist.saves < MaxSaves
    /\ \E data \in {client_session, client_session + 1} \cap (1..MaxSessions),
          crash \in {"none", "primary", "backup"} :
          /\ client_session' = data
          /\ SetAuth(_save_session(AuthStore, data, now, crash))
    /\ authHist' = [last |-> "save", saves |-> authHist.saves + 1]
    /\ ObservationsCleared
    /\ UNCHANGED now
    /\ NotAuth

Logout ==
    /\ SetAuth(logout(AuthStore, now))
    /\ authHist' = [authHist EXCEPT !.last = "logout"]
    /\ ObservationsCleared
    /\ UNCHANGED <<now, client_session>>
    /\ NotAuth

LoadSession ==
    /\ loaded' = _load_session(AuthStore)
    /\ authHist' = [authHist EXCEPT !.last = "load"]
    /\ UNCHANGED <<now, client_session, session_file, backup_files, mtime_clock,
                   login_result, auth_requests, created_ts_written, loaded_stale,
                   login_first_call>>
    /\ NotAuth

\* what self.client.get_timeline_feed() followed by get_current_username() can do
\* inside login_with_session: both succeed, the username is None, or the feed
\* request raises
ValidateOutcomes == {"ok", "no_username", "LoginRequired", "ClientConnectionError",
                     "ClientThrottledError", "other"}

\* login_flow(relogin=True), get_timeline_feed() and get_current_username() of the
\* refresh branch: all succeed, the username is None, or one of them raises
RefreshOutcomes == {"ok", "no_username", "fail"}

\* session_age > 24 in _load_session: the primary file is valid JSON with a
\* "created_ts" more than 24 hours before the call.  The hours between a save and
\* a later login are the surroundings' choice ("aged_sessions").
CanBeStale(a) ==
    /\ "aged_sessions" \in remote
    /\ a.session_file.exists /\ a.session_file.valid
    /\ a.created_ts_written

\* login_with_session: every exception is caught and turned into False.
\* _load_session only logs a warning for a session older than 24 hours; the first
\* remote call is self.client.get_timeline_feed() whatever the age.
LoginWithSession ==
    /\ \E stale \in BOOLEAN :
          /\ stale => CanBeStale(AuthStore)
          /\ loaded_stale' = stale
    /\ login_first_call' = IF _load_session(AuthStore) = NoSession THEN "none"
                           ELSE "get_timeline_feed"
    /\ LET session == _load_session(AuthStore) IN
       /\ loaded' = session
       /\ IF session = NoSession
          THEN \* if not session: return False
               /\ login_result' = "False"
               /\ auth_requests' = FALSE
               /\ UNCHANGED <<client_session, session_file, backup_files, mtime_clock,
                            created_ts_written>>
               /\ authHist' = [authHist EXCEPT !.last = "login_with_session"]
          ELSE /\ client_session' = session
               /\ auth_requests' = TRUE
               /\ \E out \in ValidateOutcomes :
                     CASE out \in {"ok", "ClientThrottledError"} ->
                            /\ login_result' = "True"
                            /\ UNCHANGED <<session_file, backup_files, mtime_clock,
                                         created_ts_written>>
                            /\ authHist' = [authHist EXCEPT !.last = "login_with_session"]
                       [] out \in {"no_username", "other"} ->
                            /\ login_result' = "False"
                            /\ UNCHANGED <<session_file, backup_files, mtime_clock,
                                         created_ts_written>>
                            /\ authHist' = [authHist EXCEPT !.last = "login_with_session"]
                       [] OTHER ->
                            \* except (LoginRequired, ClientConnectionError): refresh
                            \E r \in RefreshOutcomes :
                               IF r = "ok" /\ authHist.saves < MaxSaves
                               THEN \E crash \in {"none", "primary", "backup"} :
                                      /\ SetAuth(_save_session(AuthStore, session, now, crash))
                                      /\ login_result' = IF crash = "none" THEN "True"
                                                         ELSE "False"
                                      /\ authHist' = [last |-> "login_with_session",
                                                      saves |-> authHist.saves + 1]
                               ELSE /\ r # "ok"
                                    /\ login_result' = "False"
                                    /\ UNCHANGED <<session_file, backup_files, mtime_clock,
                                         created_ts_written>>
                                    /\ authHist' = [authHist EXCEPT
                                                       !.last = "login_with_session"]
    /\ UNCHANGED now
    /\ NotAuth

AuthNext == SaveSession \/ Logout \/ LoadSession \/ LoginWithSession \/ Tick

----------------------------------------------------------------------------
(* _is_sponsored_post.  A raw post is a dictionary; of each key the function     *)
(* reads, the model keeps what the function can tell apart: the key is absent,   *)
(* its value is falsy (None, False, 0, "", [], {}) or truthy.                    *)

SponsorFields == {"is_ad", "is_paid_partnership", "injected", "ad_action", "ad_id",
                  "ad_link_type", "branded_content_tag_info", "sponsor_tags",
                  "ad_display_context", "commerce_promotion", "label_type",
                  "product_tags", "shopping_product_tags"}

\* the values a key that is present can hold.  injected: None, a dictionary without
\* (or with a falsy) ad_id, a dictionary with an ad_id.  label_type: some other
\* label or "PAID_PARTNERSHIP".  product_tags: {} or a dictionary whose "in" list
\* has 0, 3 or 4 entries.
FieldValues(f) ==
    CASE f = "injected" -> {"null", "no_ad_id", "ad_id"}
      [] f = "label_type" -> {"falsy", "other", "PAID_PARTNERSHIP"}
      [] f = "product_tags" -> {"falsy", "in_0", "in_3", "in_4"}
      [] OTHER -> {"falsy", "truthy"}

AllFieldValues == UNION {FieldValues(f) : f \in SponsorFields}

\* len(post_data.get("product_tags", {}).get("in", []))
ProductTagCount(v) ==
    CASE v = "in_3" -> 3
      [] v = "in_4" -> 4
      [] OTHER -> 0

\* if len(...) > 3
ProductTagLimit == 3

\* the raw posts that carry exactly the keys of the set S
RawPostsWith(S) ==
    {[f \in SponsorFields |-> IF f \in S THEN g[f] ELSE "absent"] :
        g \in {h \in [S -> AllFieldValues] : \A f \in S : h[f] \in FieldValues(f)}}

RawPosts ==
    UNION {RawPostsWith(S) : S \in {T \in SUBSET SponsorFields :
                                        Cardinality(T) <= MaxFieldsSet}}

\* bool(post_data.get(key)) for the keys the function reads by truthiness
Truthy(v) == v \notin {"absent", "falsy", "null"}

\* a test on the key's presence instead of its value
CommercePromotionTest_Presence(p) == p["commerce_promotion"] # "absent"

\* if post_data.get("commerce_promotion"):
CommercePromotionTest(p) == Truthy(p["commerce_promotion"])

\* if post_data.get("product_tags") and post_data.get("shopping_product_tags"):
\*     if len(post_data.get("product_tags", {}).get("in", [])) > 3:
ShoppingTest(p) ==
    /\ Truthy(p["product_tags"]) /\ Truthy(p["shopping_product_tags"])
    /\ ProductTagCount(p["product_tags"]) > ProductTagLimit

\* "True", "False", or the exception the call raises
_is_sponsored_post(p) ==
    IF Truthy(p["is_ad"]) THEN "True"
    ELSE IF Truthy(p["is_paid_partnership"]) THEN "True"
    \* post_data.get("injected", {}).get("ad_id") on "injected": None
    ELSE IF p["injected"] = "null" THEN "AttributeError"
    ELSE IF p["injected"] = "ad_id" THEN "True"
    \* post_data.get("ad_action", "") != ""
    ELSE IF p["ad_action"] = "truthy" THEN "True"
    ELSE IF Truthy(p["ad_id"]) THEN "True"
    ELSE IF Truthy(p["ad_link_type"]) THEN "True"
    ELSE IF Truthy(p["branded_content_tag_info"]) THEN "True"
    ELSE IF Truthy(p["sponsor_tags"]) THEN "True"
    \* "ad_display_context" in post_data
    ELSE IF p["ad_display_context"] # "absent" THEN "True"
    ELSE IF CommercePromotionTest(p) THEN "True"
    ELSE IF p["label_type"] = "PAID_PARTNERSHIP" THEN "True"
    ELSE IF ShoppingTest(p) THEN "True"
    ELSE "False"

\* a raw post without any of the keys
PlainPost == [f \in SponsorFields |-> "absent"]

CheckSponsored ==
    /\ is_sponsored = "none"
    /\ is_sponsored' = _is_sponsored_post(raw_post)
    /\ UNCHANGED <<configVars, componentVars, raw_post, post_object, scores, norm_input, normalized, sleepVars, now,
                   storeVars, storeObs, crawlVars, crawlObs, authVars>>

----------------------------------------------------------------------------
(* PostScorer (src/post_scorer.py).  Scores and weights are decimals with at most *)
(* three places; the model keeps them as integers in thousandths, which is exact  *)
(* for every product and sum score_post forms before round(final_score, 3).       *)

\* 1.0 in thousandths
Unit == 1000

\* weights in which content_signal was raised without lowering another
weights_SumAboveOne ==
    [user_signal |-> 300, content_signal |-> 350, keyword_relevance |-> 200,
     engagement_ratio |-> 150, recency |-> 100]

\* self.weights
weights == [user_signal |-> 300, content_signal |-> 250, keyword_relevance |-> 200,
            engagement_ratio |-> 150, recency |-> 100]

\* self.engagement_thresholds
engagement_thresholds == [high |-> 50, medium |-> 20, low |-> 10]

\* a caption is a sequence of phrases; each phrase matches at most one of
\* self.event_patterns (date, time, address, event keyword) or none ("plain")
Phrases == {"plain", "12/25/2024", "7:30 PM", "123 Main Street", "workshop"}

event_patterns == <<"date", "time", "address", "keyword">>

\* re.findall(pattern, phrase, re.IGNORECASE) is non-empty
MatchesPattern(pattern, phrase) ==
    \/ pattern = "date" /\ phrase = "12/25/2024"
    \/ pattern = "time" /\ phrase = "7:30 PM"
    \/ pattern = "address" /\ phrase = "123 Main Street"
    \/ pattern = "keyword" /\ phrase = "workshop"

\* "Join us tomorrow at 2 PM at 123 Main Street for our workshop!": "2 PM" has no
\* colon and matches no pattern
SampleCaption == <<"plain", "123 Main Street", "plain", "workshop">>

\* the truth value Python gives an Optional string or list
NonEmpty(opt) == ~opt.none /\ opt.value # <<>>

\* a detection that collects the event keywords without counting them as indicators
detect_event_indicators_KeywordsAreNotIndicators(text) ==
    LET RECURSIVE Found(_)
        Found(k) == IF k > Len(event_patterns) THEN <<>>
                    ELSE SelectSeq(text, LAMBDA ph : MatchesPattern(event_patterns[k], ph))
                         \o Found(k + 1)
    IN [has_indicators |-> \E i \in 1..Len(text) : \E k \in 1..3 :
                              MatchesPattern(event_patterns[k], text[i]),
        keywords |-> Found(1)]

\* found_keywords, pattern by pattern; has_indicators is set when a pattern matched
detect_event_indicators(text) ==
    LET RECURSIVE Found(_)
        Found(k) == IF k > Len(event_patterns) THEN <<>>
                    ELSE SelectSeq(text, LAMBDA ph : MatchesPattern(event_patterns[k], ph))
                         \o Found(k + 1)
    IN [has_indicators |-> Found(1) # <<>>, keywords |-> Found(1)]

calculate_user_signal_weight(p) ==
    IF p.is_close_friend THEN 1000
    ELSE IF p.is_verified THEN 300
    ELSE 700

\* engagement_ratio >= threshold, for engagement_ratio = engagement_count / follower_count
RatioAtLeast(p, threshold) == Unit * p.engagement_count >= threshold * p.follower_count

\* the divisions by post.follower_count raise ZeroDivisionError
DivisionRaises(p) == p.follower_count = 0

\* a content signal that looks at the caption's presence only
calculate_content_signal_weight_IgnoresIndicators(p) ==
    IF ~NonEmpty(p.caption)
    THEN IF RatioAtLeast(p, engagement_thresholds.high) THEN 400 ELSE 200
    ELSE 600

calculate_content_signal_weight(p) ==
    IF ~NonEmpty(p.caption)
    THEN IF RatioAtLeast(p, engagement_thresholds.high) THEN 400 ELSE 200
    ELSE IF p.has_event_indicators THEN 1000
    ELSE 600

calculate_keyword_relevance_weight(p) ==
    IF p.has_event_indicators THEN 1000
    ELSE IF NonEmpty(p.event_keywords) THEN 800
    ELSE 200

calculate_engagement_ratio_weight(p) ==
    IF RatioAtLeast(p, engagement_thresholds.high) THEN 800
    ELSE IF RatioAtLeast(p, engagement_thresholds.medium) THEN 500
    ELSE 200

\* days_old = (datetime.now() - post.created_at).days
calculate_recency_weight(days_old) ==
    IF days_old = 0 THEN 1000
    ELSE IF days_old <= 7 THEN 800
    ELSE IF days_old <= 30 THEN 500
    ELSE 200

\* round(x, 3) of a value given in millionths
Round3(millionths) == (millionths + 500) \div Unit

calculate_final_score(p, days_old) ==
    Round3(calculate_user_signal_weight(p) * weights.user_signal
           + calculate_content_signal_weight(p) * weights.content_signal
           + calculate_keyword_relevance_weight(p) * weights.keyword_relevance
           + calculate_engagement_ratio_weight(p) * weights.engagement_ratio
           + calculate_recency_weight(days_old) * weights.recency)

\* the first lines of score_post write the detection result into the Post
Detected(p) ==
    IF NonEmpty(p.caption)
    THEN LET d == detect_event_indicators(p.caption.value)
         IN [p EXCEPT !.has_event_indicators = d.has_indicators,
                      !.event_keywords = Some(d.keywords)]
    ELSE p

\* score_post(post) for a post whose age is days_old whole days when the
\* component scores are computed and later_days_old whole days when
\* calculate_final_score computes the recency again
score_post(p, days_old, later_days_old) ==
    LET q == Detected(p) IN
    IF DivisionRaises(q) THEN [status |-> "ZeroDivisionError"]
    ELSE [status |-> "returned",
          component_scores |->
              [user_signal |-> calculate_user_signal_weight(q),
               content_signal |-> calculate_content_signal_weight(q),
               keyword_relevance |-> calculate_keyword_relevance_weight(q),
               engagement_ratio |-> calculate_engagement_ratio_weight(q),
               recency |-> calculate_recency_weight(days_old)],
          final_score |-> calculate_final_score(q, later_days_old)]

NotScored == [status |-> "none"]

\* the ages of a post: whole days between created_at and now (-1 when created_at
\* is later than now), and whether created_at is so close to the next whole day
\* that the day count can step while score_post runs
Ages == {-1, 0, 7, 8, 30, 31}

EngagementCounts == {0, 1, 1000}
FollowerCounts == {0, 20, 21, 50, 51, 10000}

Captions ==
    {None, Some(SampleCaption)}
    \cup {Some(c) : c \in UNION {[1..n -> Phrases] : n \in 0..MaxCaptionLen}}

Posts ==
    [is_close_friend : BOOLEAN, is_verified : BOOLEAN, caption : Captions,
     engagement_count : EngagementCounts, follower_count : FollowerCounts,
     days_old : Ages, near_next_day : BOOLEAN,
     has_event_indicators : BOOLEAN,
     event_keywords : {None, Some(<<>>), Some(<<"workshop">>)}]

\* the sample post of the module's __main__ block
SamplePost ==
    [is_close_friend |-> TRUE, is_verified |-> FALSE, caption |-> Some(SampleCaption),
     engagement_count |-> 1000, follower_count |-> 10000,
     days_old |-> 0, near_next_day |-> FALSE,
     has_event_indicators |-> FALSE, event_keywords |-> None]

ScorePost ==
    /\ scores = NotScored
    /\ \E stepped \in BOOLEAN :
          /\ stepped => post_object.near_next_day
          /\ scores' = score_post(post_object, post_object.days_old,
                                  IF stepped THEN post_object.days_old + 1
                                  ELSE post_object.days_old)
    /\ post_object' = Detected(post_object)
    /\ UNCHANGED <<configVars, componentVars, raw_post, is_sponsored, norm_input, normalized, sleepVars,
                   now,
                   storeVars, storeObs, crawlVars, crawlObs, authVars>>

----------------------------------------------------------------------------
(* The normalizer on its own: _parse_post for a payload of the mobile API, and  *)
(* _convert_web_to_api_format followed by _parse_post for a shortcode_media.    *)

ApiInput(payload) == [kind |-> "api", payload |-> payload]
WebInput(web_media, shortcode) ==
    [kind |-> "web", web_media |-> web_media, shortcode |-> shortcode]

\* the normalized record of a raw input, computed at clock second t
Normalize(input, t) ==
    IF input.kind = "web"
    THEN _parse_post(_convert_web_to_api_format(input.web_media, input.shortcode, t))
    ELSE _parse_post(input.payload)

\* "taken_at" values of the raw inputs
Timestamps == 0..MaxClock

NormInputs ==
    {ApiInput([Payload(pk, code, "mobile", FALSE, parseable) EXCEPT !.taken_at = ts]) :
        pk \in {EmptyId} \cup (1..NumIds), code \in 1..NumIds,
        parseable \in BOOLEAN, ts \in Timestamps}
    \cup
    {WebInput(WebMedia(ts, FALSE, parseable, converts), code) :
        ts \in {None} \cup {Some(t) : t \in Timestamps},
        parseable \in BOOLEAN, converts \in BOOLEAN, code \in 1..NumIds}

\* the same raw input is normalized again
NormalizeAgain ==
    /\ Len(normalized) < 2
    /\ normalized' = Append(normalized, Normalize(norm_input, now))
    /\ UNCHANGED <<configVars, componentVars, raw_post, is_sponsored, post_object, scores, norm_input,
                   sleepVars, now,
                   storeVars, storeObs, crawlVars, crawlObs, authVars>>

----------------------------------------------------------------------------
(* Pacing: the pauses of get_feed, _fetch_single_post_info, _enrich_post_data,  *)
(* _ultra_realistic_browsing and _simulate_human_browsing, in whole seconds.    *)

\* the seconds a pause of each kind can be drawn to last, as <<least, most>>:
\* random.uniform(least, most); the long break draws 2 to 10 minutes
PauseRange ==
    [reading |-> <<5, 15>>, engagement |-> <<3, 8>>, distraction |-> <<30, 120>>,
     long_break |-> <<120, 600>>,
     view |-> <<3, 15>>, linger |-> <<5, 25>>, like |-> <<1, 3>>,
     comment_view |-> <<3, 12>>, profile_view |-> <<8, 25>>,
     long_engagement |-> <<20, 60>>, significant_distraction |-> <<45, 120>>,
     initial |-> <<5, 15>>, pre_request |-> <<2, 7>>, inter_page |-> <<10, 25>>,
     connection_error |-> <<30, 60>>, client_error |-> <<60, 120>>,
     unexpected_error |-> <<45, 90>>,
     click |-> <<1, 3>>, fetch_error |-> <<5, 15>>,
     enrich_view |-> <<3, 12>>, enrich_comment |-> <<2, 5>>, enrich_like |-> <<1, 4>>,
     enrich_profile |-> <<2, 6>>]

\* the rate-limit backoff is not drawn: it lasts _handle_rate_limit(retry_count)
PauseKinds == DOMAIN PauseRange \cup {"rate_limit"}

Durations(kind) ==
    IF kind = "rate_limit"
    THEN {_handle_rate_limit(rc) : rc \in 1..max_retries}
    ELSE PauseRange[kind][1] .. PauseRange[kind][2]

\* chunk_size of the two pauses that are slept in chunks; 0 for a pause that is
\* one time.sleep call
ChunkSize(kind) ==
    CASE kind = "long_break" -> 15
      [] kind = "significant_distraction" -> 10
      [] OTHER -> 0

\* the arguments of the time.sleep calls made for a pause of d seconds:
\* for _ in range(int(d / chunk_size)): time.sleep(chunk_size), then
\* time.sleep(d % chunk_size); or time.sleep(d) alone
time_sleeps(kind, d) ==
    LET chunk_size == ChunkSize(kind) IN
    IF chunk_size > 0
    THEN [i \in 1..(d \div chunk_size) |-> chunk_size] \o <<d % chunk_size>>
    ELSE <<d>>

Pause ==
    /\ \E kind \in PauseKinds :
          \E d \in Durations(kind) :
              /\ pause' = [kind |-> kind, seconds |-> d]
              /\ sleeps' = time_sleeps(kind, d)
    /\ UNCHANGED <<configVars, componentVars, raw_post, is_sponsored, post_object, scores, norm_input,
                   normalized, now, storeVars, storeObs, crawlVars, crawlObs, authVars>>

----------------------------------------------------------------------------
(* The accessibility captions _parse_post collects (lines 192-277).  A caption  *)
(* is an optional string: missing, empty, or a text that names its place.       *)

\* item["accessibility_caption"] and item["image_versions2"]["accessibility_caption"]
\* of a carousel item
CarouselItems ==
    [accessibility_caption : {None, Some(""), Some("item")},
     image_caption : {None, Some(""), Some("item_image")}]

\* the keys of a raw payload that the caption code reads: media_type (1 photo,
\* 2 video, 8 album), the top-level "accessibility_caption", "image_versions2"
\* (missing, or present with or without its accessibility_caption),
\* "caption_with_translation_aid", whether "video_versions" is there, and
\* "carousel_media"
CaptionPosts ==
    [media_type : {1, 2, 8},
     accessibility_caption : {None, Some(""), Some("top")},
     has_image_versions2 : BOOLEAN,
     image_caption : {None, Some("image")},
     caption_with_translation_aid : {None, Some("aid")},
     has_video_versions : BOOLEAN,
     carousel_media : {None} \cup {Some(c) : c \in UNION {[1..n -> CarouselItems] :
                                                           n \in 0..MaxCarousel}}]

\* the truth value Python gives an optional string
IsSet(opt) == ~opt.none /\ opt.value # ""

\* the list with the text appended when the key is there and its value is truthy
AppendIfSet(list, opt) == IF IsSet(opt) THEN Append(list, opt.value) ELSE list

\* for item in post_data.get("carousel_media", []): the item-level caption, then
\* the caption inside the item's image_versions2
RECURSIVE CarouselCaptions(_)
CarouselCaptions(items) ==
    IF items = <<>> THEN <<>>
    ELSE AppendIfSet(AppendIfSet(<<>>, Head(items).accessibility_caption),
                     Head(items).image_caption)
         \o CarouselCaptions(Tail(items))

\* the accessibility_captions list of _parse_post: the photo branch (media_type
\* == 1) reads image_versions2, the top-level caption and the translation aid;
\* the album branch (media_type == 8 and "carousel_media" in post_data) reads the
\* carousel items only; the video branch (media_type == 2 and "video_versions" in
\* post_data) reads the top-level caption
accessibility_captions(p) ==
    LET photo == IF p.media_type = 1
                 THEN AppendIfSet(
                          AppendIfSet(
                              IF p.has_image_versions2 THEN AppendIfSet(<<>>, p.image_caption)
                              ELSE <<>>,
                              p.accessibility_caption),
                          p.caption_with_translation_aid)
                 ELSE <<>>
        album == IF p.media_type = 8 /\ ~p.carousel_media.none
                 THEN CarouselCaptions(p.carousel_media.value)
                 ELSE <<>>
        video == IF p.media_type = 2 /\ p.has_video_versions
                 THEN AppendIfSet(<<>>, p.accessibility_caption)
                 ELSE <<>>
    IN photo \o album \o video

NotParsed == [status |-> "none", value |-> <<>>]

\* structured_post["accessibility_captions"] of self._parse_post(post_data)
ParseCaptions ==
    /\ captions_out = NotParsed
    /\ captions_out' = [status |-> "returned", value |-> accessibility_captions(caption_post)]
    /\ UNCHANGED <<configVars, caption_post, backoffVars, collectVars, monitorVars, pureVars, now, storeVars,
                   storeObs, crawlVars, crawlObs, authVars>>

----------------------------------------------------------------------------
(* The backoff of FeedService and UserService (feed_service.py, user_service.py) *)

Services == {"FeedService", "UserService"}

\* FeedService._handle_rate_limit and UserService._handle_rate_limit:
\* delay = self.retry_delay * (2 ** retry_count); time.sleep(delay)
Service_handle_rate_limit(service, rc) == retry_delay * (2 ^ rc)

NoServiceSleep == [service |-> "none", retry_count |-> 0, seconds |-> 0]

\* except ClientThrottledError: retry_count += 1; if retry_count >
\* self.max_retries: stop; self._handle_rate_limit(retry_count)
ServiceBackoff ==
    /\ service_sleep = NoServiceSleep
    /\ \E service \in Services, rc \in 1..max_retries :
          service_sleep' = [service |-> service, retry_count |-> rc,
                            seconds |-> Service_handle_rate_limit(service, rc)]
    /\ UNCHANGED <<configVars, captionVars, collectVars, monitorVars, pureVars, now, storeVars, storeObs,
                   crawlVars, crawlObs, authVars>>

----------------------------------------------------------------------------
(* FeedService.collect_feed (feed_service.py lines 99-282) *)

NotCollect == UNCHANGED <<configVars, captionVars, backoffVars, monitorVars, pureVars, now, storeVars,
                          storeObs, crawlVars, crawlObs, authVars>>

\* collect_feed(max_posts): posts_collected = 0; retry_count = 0; while True
collect_feed ==
    /\ collect_pc = "idle"
    /\ \E mp \in 0..MaxPosts : collect_max_posts' = mp
    /\ collect_pc' = "loop"
    /\ posts_collected' = 0
    /\ posts_saved' = 0
    /\ feed_requests' = 0
    /\ UNCHANGED feed_processed_posts
    /\ NotCollect

\* if max_posts and posts_collected >= max_posts: break
MaxPostsReached(collected, mp) == mp # 0 /\ collected >= mp

\* one iteration of the loop: get_timeline_feed (or feed/timeline/ when it raised)
\* answers with the media of a page, or with none (also when both requests
\* raised: their exceptions are caught around the requests).  Every media of the
\* page that has a pk and is not in self.processed_posts is parsed, added to
\* posts and counted; then posts is saved (the write may raise, which the outer
\* except Exception answers with a sleep and the next iteration); then max_posts
\* is tested
CollectPage ==
    /\ collect_pc = "loop"
    /\ feed_requests < MaxFeedRequests
    /\ feed_requests' = feed_requests + 1
    /\ \E medias \in SUBSET (1..NumIds), save_raises \in BOOLEAN :
          LET posts == medias \ feed_processed_posts
              collected == posts_collected + Cardinality(posts)
          IN /\ save_raises => posts # {}
             /\ feed_processed_posts' = feed_processed_posts \cup posts
             /\ posts_collected' = collected
             /\ posts_saved' = IF save_raises THEN posts_saved
                               ELSE posts_saved + Cardinality(posts)
             /\ collect_pc' = IF medias # {} /\ ~save_raises
                                 /\ MaxPostsReached(collected, collect_max_posts)
                              THEN "done" ELSE "loop"
    /\ UNCHANGED collect_max_posts
    /\ NotCollect

----------------------------------------------------------------------------
(* InstagramMonitor (controllers/instagram_monitor.py).  Times are in units of *)
(* which the rate-limit window holds RateWindow.                               *)

\* self._rate_limit_window = 3600 and self._max_requests_per_window = 100, scaled
\* down: bounds of the model
_rate_limit_window == 2
_max_requests_per_window == 2

\* self._thread = None
NoThread == -1
\* the thread of a request that calls check_now
Caller == 0
LoopThreads == 1..MaxLoopThreads
Threads == {Caller} \cup LoopThreads

NotMonitor == UNCHANGED <<configVars, captionVars, backoffVars, collectVars, pureVars, now,
                          storeVars, storeObs, crawlVars, crawlObs, authVars>>

At(t, p) == thread_pc' = [thread_pc EXCEPT ![t] = p]

\* start(): with self._lock: if self._running: return False; self._running = True;
\* self._thread = threading.Thread(target=self._monitor_loop); self._thread.start()
start ==
    /\ ~_running
    /\ \E t \in LoopThreads :
          /\ thread_pc[t] = "none"
          /\ \A u \in LoopThreads : u < t => thread_pc[u] # "none"
          /\ _thread' = t
          /\ At(t, "head")
    /\ _running' = TRUE
    /\ UNCHANGED <<_request_count, _last_reset, utcnow, loaded_count, wake_at,
                   window_requests>>
    /\ NotMonitor

\* stop(): with self._lock: if not self._running: return False; self._running =
\* False; self._thread.join(timeout=1.0); self._thread = None.  The join returns
\* when the loop thread has ended or when the second is over: a thread at the
\* loop test ends within it, a thread in time.sleep(60) ends within it only when
\* the sleep was about to end, a thread inside _check_account does not
stop ==
    /\ _running
    /\ _running' = FALSE
    /\ _thread' = NoThread
    /\ \E joined \in BOOLEAN :
          /\ joined => thread_pc[_thread] \in {"head", "sleep"}
          /\ ~joined => thread_pc[_thread] # "head"
          /\ IF joined THEN At(_thread, "exited") ELSE thread_pc' = thread_pc
    /\ UNCHANGED <<_request_count, _last_reset, utcnow, loaded_count, wake_at,
                   window_requests>>
    /\ NotMonitor

ThreadFrame == UNCHANGED <<_running, _thread, utcnow>>

\* while self._running:
LoopTest(t) ==
    /\ thread_pc[t] = "head"
    /\ At(t, IF _running THEN "body" ELSE "exited")
    /\ UNCHANGED <<_request_count, _last_reset, loaded_count, wake_at, window_requests>>
    /\ ThreadFrame /\ NotMonitor

\* for account in active_accounts: an account is due and self._check_account(account)
\* reaches its rate-limit check, or no (further) account is due and the round ends
\* with time.sleep(60)
LoopBody(t) ==
    /\ thread_pc[t] = "body"
    /\ \E due \in BOOLEAN :
          /\ due => _request_count <= MaxRequestCount
          /\ At(t, IF due THEN "check" ELSE "sleep")
    /\ UNCHANGED <<_request_count, _last_reset, loaded_count, wake_at, window_requests>>
    /\ ThreadFrame /\ NotMonitor

\* time.sleep(60) is over
LoopSleep(t) ==
    /\ thread_pc[t] = "sleep"
    /\ At(t, "head")
    /\ UNCHANGED <<_request_count, _last_reset, loaded_count, wake_at, window_requests>>
    /\ ThreadFrame /\ NotMonitor

\* check_now(account_id): the account is found and self._check_account(account)
\* reaches its rate-limit check
check_now ==
    /\ thread_pc[Caller] = "none"
    /\ _request_count <= MaxRequestCount
    /\ At(Caller, "check")
    /\ UNCHANGED <<_request_count, _last_reset, loaded_count, wake_at, window_requests>>
    /\ ThreadFrame /\ NotMonitor

\* _check_rate_limit up to its increment: the counter is reset when the window
\* has passed ((now - self._last_reset).total_seconds() > self._rate_limit_window);
\* when self._request_count >= self._max_requests_per_window and wait_time > 0 it
\* returns (False, wait_time) and _check_account sleeps wait_time; otherwise it
\* goes on to the increment.  No lock is held.
CheckRateLimit(t) ==
    /\ thread_pc[t] = "check"
    /\ LET passed == utcnow - _last_reset > _rate_limit_window
           count == IF passed THEN 0 ELSE _request_count
           reset == IF passed THEN utcnow ELSE _last_reset
           wait_time == _rate_limit_window - (utcnow - reset)
       IN /\ _request_count' = count
          /\ _last_reset' = reset
          /\ window_requests' = IF passed THEN 0 ELSE window_requests
          /\ IF count >= _max_requests_per_window /\ wait_time > 0
             THEN /\ At(t, "wait")
                  /\ wake_at' = [wake_at EXCEPT ![t] = utcnow + wait_time]
             ELSE /\ At(t, "load")
                  /\ wake_at' = wake_at
    /\ UNCHANGED loaded_count
    /\ ThreadFrame /\ NotMonitor

\* self._request_count += 1, first half: the value is read
LoadCount(t) ==
    /\ thread_pc[t] = "load"
    /\ loaded_count' = [loaded_count EXCEPT ![t] = _request_count]
    /\ At(t, "store")
    /\ UNCHANGED <<_request_count, _last_reset, wake_at, window_requests>>
    /\ ThreadFrame /\ NotMonitor

\* self._request_count += 1, second half: the value read plus one is written;
\* return True, 0
StoreCount(t) ==
    /\ thread_pc[t] = "store"
    /\ _request_count' = loaded_count[t] + 1
    /\ At(t, "request")
    /\ UNCHANGED <<_last_reset, loaded_count, wake_at, window_requests>>
    /\ ThreadFrame /\ NotMonitor

\* time.sleep(wait_time) is over
Wake(t) ==
    /\ thread_pc[t] = "wait"
    /\ utcnow >= wake_at[t]
    /\ At(t, "request")
    /\ UNCHANGED <<_request_count, _last_reset, loaded_count, wake_at, window_requests>>
    /\ ThreadFrame /\ NotMonitor

\* result = client.get_latest_posts(account.username, since_time=last_check), and
\* the rest of _check_account; the loop goes on to the next account, check_now
\* returns
RequestPosts(t) ==
    /\ thread_pc[t] = "request"
    /\ window_requests' = IF utcnow - _last_reset <= _rate_limit_window
                          THEN window_requests + 1 ELSE window_requests
    /\ At(t, IF t = Caller THEN "none" ELSE "body")
    /\ UNCHANGED <<_request_count, _last_reset, loaded_count, wake_at>>
    /\ ThreadFrame /\ NotMonitor

\* time passes
TickUtc ==
    /\ utcnow < MaxUtc
    /\ utcnow' = utcnow + 1
    /\ UNCHANGED <<_running, _thread, _request_count, _last_reset, thread_pc, loaded_count,
                   wake_at, window_requests>>
    /\ NotMonitor

LoopStep(t) ==
    \/ LoopTest(t)
    \/ LoopBody(t)
    \/ LoopSleep(t)

CheckAccountStep(t) ==
    \/ CheckRateLimit(t)
    \/ LoadCount(t)
    \/ StoreCount(t)
    \/ Wake(t)
    \/ RequestPosts(t)

----------------------------------------------------------------------------
(* Initial states *)

\* a photo without any accessibility caption
NoCaptionPost ==
    [media_type |-> 1, accessibility_caption |-> None, has_image_versions2 |-> FALSE,
     image_caption |-> None, caption_with_translation_aid |-> None,
     has_video_versions |-> FALSE, carousel_media |-> None]

CaptionFieldsInit ==
    /\ caption_post = NoCaptionPost
    /\ captions_out = NotParsed

BackoffFieldsInit == service_sleep = NoServiceSleep

\* FeedService.__init__: self.processed_posts = set()
CollectFieldsInit ==
    /\ collect_pc = "idle"
    /\ collect_max_posts = 0
    /\ posts_collected = 0
    /\ feed_processed_posts = {}
    /\ posts_saved = 0
    /\ feed_requests = 0

\* InstagramMonitor.__init__: self._last_reset = datetime.utcnow()
MonitorFieldsInit ==
    /\ _running = FALSE
    /\ _thread = NoThread
    /\ _request_count = 0
    /\ _last_reset = 0
    /\ utcnow = 0
    /\ thread_pc = [t \in Threads |-> "none"]
    /\ loaded_count = [t \in Threads |-> 0]
    /\ wake_at = [t \in Threads |-> 0]
    /\ window_requests = 0

ComponentFieldsInit ==
    CaptionFieldsInit /\ BackoffFieldsInit /\ CollectFieldsInit /\ MonitorFieldsInit

SleepFieldsInit ==
    /\ pause = [kind |-> "none", seconds |-> 0]
    /\ sleeps = <<>>

PureFieldsInit ==
    /\ raw_post = PlainPost
    /\ is_sponsored = "none"
    /\ post_object = SamplePost
    /\ scores = NotScored
    /\ norm_input = ApiInput(NoData)
    /\ normalized = <<>>
    /\ SleepFieldsInit

EmptyDir == [f \in {} |-> EmptyFile]

StoreFieldsInit ==
    /\ now = 0
    /\ files = EmptyDir
    /\ current_file = NoFile
    /\ posts_in_current_file = 0
    /\ hist = <<>>
    /\ lastBatch = <<>>
    /\ lastFault = "none"
    /\ storeRaised = FALSE

CrawlFieldsInit ==
    /\ pc = "idle"
    /\ max_posts = 0
    /\ all_posts = <<>>
    /\ next_max_id = NoCursor
    /\ retry_count = 0
    /\ posts_processed_count = 0
    /\ post_ids_to_process = <<>>
    /\ processed_posts = {}
    /\ cur_post = 0
    /\ post_data = NoData
    /\ lastReq = "none"
    /\ loginSignal = FALSE
    /\ throttleSignals = 0
    /\ backoffs = <<>>
    /\ served = <<>>
    /\ page_answer = "none"
    /\ unpaced_call = FALSE

AuthFieldsInit ==
    /\ session_file = MissingFile
    /\ backup_files = [f \in {} |-> MissingFile]
    /\ client_session = NoSession
    /\ loaded = NoSession
    /\ mtime_clock = 0
    /\ authHist = [last |-> "none", saves |-> 0]
    /\ login_result = "none"
    /\ auth_requests = FALSE
    /\ created_ts_written = FALSE
    /\ loaded_stale = FALSE
    /\ login_first_call = "none"

StoreInit ==
    /\ max_posts_per_file \in 1..MaxPerFile
    /\ max_retries = 0
    /\ retry_delay = 0
    /\ remote = {}
    /\ StoreFieldsInit /\ CrawlFieldsInit /\ AuthFieldsInit /\ ComponentFieldsInit /\ PureFieldsInit

Init ==
    /\ max_posts_per_file = MaxPerFile
    /\ max_retries \in {0, MaxRetries}
    /\ retry_delay = DefaultRetryDelay
    /\ remote = {}
    /\ StoreFieldsInit /\ CrawlFieldsInit /\ AuthFieldsInit /\ ComponentFieldsInit /\ PureFieldsInit

\* BackoffSpec: get_feed against a feed endpoint that answers every page request
\* with a rate-limit signal, for every retry_delay and max_retries
BackoffInit ==
    /\ max_posts_per_file = MaxPerFile
    /\ max_retries \in 0..MaxBackoffRetries
    /\ retry_delay \in 0..MaxRetryDelay
    /\ remote = {}
    /\ StoreFieldsInit /\ CrawlFieldsInit /\ AuthFieldsInit /\ ComponentFieldsInit /\ PureFieldsInit

BackoffNext == get_feed \/ PageThrottled

BackoffSpec == BackoffInit /\ [][BackoffNext]_vars

AuthInit ==
    /\ max_posts_per_file = MaxPerFile
    /\ max_retries = 0
    /\ retry_delay = 0
    /\ remote = {}
    /\ StoreFieldsInit /\ CrawlFieldsInit /\ AuthFieldsInit /\ ComponentFieldsInit /\ PureFieldsInit

AuthSpec == AuthInit /\ [][AuthNext]_vars

\* StaleSpec: sessions are saved and, any number of hours later, used by
\* login_with_session
StaleInit ==
    /\ max_posts_per_file = MaxPerFile
    /\ max_retries = 0
    /\ retry_delay = 0
    /\ remote = {"aged_sessions"}
    /\ StoreFieldsInit /\ CrawlFieldsInit /\ AuthFieldsInit /\ ComponentFieldsInit /\ PureFieldsInit

StaleNext == SaveSession \/ LoginWithSession \/ Tick

StaleSpec == StaleInit /\ [][StaleNext]_vars

\* SponsorSpec: _is_sponsored_post applied to every raw post of RawPosts
SponsorInit ==
    /\ max_posts_per_file = MaxPerFile
    /\ max_retries = 0
    /\ retry_delay = 0
    /\ remote = {}
    /\ StoreFieldsInit /\ CrawlFieldsInit /\ AuthFieldsInit /\ ComponentFieldsInit
    /\ raw_post \in RawPosts
    /\ is_sponsored = "none"
    /\ post_object = SamplePost
    /\ scores = NotScored
    /\ norm_input = ApiInput(NoData)
    /\ normalized = <<>>
    /\ SleepFieldsInit

SponsorNext == CheckSponsored

SponsorSpec == SponsorInit /\ [][SponsorNext]_vars

\* ResultSpec: get_feed over a finite feed whose single-post payloads may be
\* malformed, without rate limiting and session expiry on the feed endpoint and
\* without failures of the output file
ResultInit ==
    /\ max_posts_per_file = MaxPerFile
    /\ max_retries = 0
    /\ retry_delay = DefaultRetryDelay
    /\ remote = {"malformed_payloads", "finite_feed", "reliable_disk"}
    /\ StoreFieldsInit /\ CrawlFieldsInit /\ AuthFieldsInit /\ ComponentFieldsInit /\ PureFieldsInit

ResultNext ==
    \/ get_feed
    \/ PageOk \/ PageError
    \/ FetchMobile \/ FetchGraph \/ FetchWeb \/ FetchBuiltin
    \/ Enrich \/ CollectPost

ResultSpec == ResultInit /\ [][ResultNext]_vars

\* ScoreSpec: score_post applied to every post of Posts
ScoreInit ==
    /\ max_posts_per_file = MaxPerFile
    /\ max_retries = 0
    /\ retry_delay = 0
    /\ remote = {}
    /\ StoreFieldsInit /\ CrawlFieldsInit /\ AuthFieldsInit /\ ComponentFieldsInit
    /\ raw_post = PlainPost
    /\ is_sponsored = "none"
    /\ post_object \in Posts
    /\ scores = NotScored
    /\ norm_input = ApiInput(NoData)
    /\ normalized = <<>>
    /\ SleepFieldsInit

ScoreNext == ScorePost

ScoreSpec == ScoreInit /\ [][ScoreNext]_vars

\* NormalizeSpec: every raw input of NormInputs is normalized twice, at the same
\* or at different clock seconds
NormalizeInit ==
    /\ max_posts_per_file = MaxPerFile
    /\ max_retries = 0
    /\ retry_delay = 0
    /\ remote = {}
    /\ StoreFieldsInit /\ CrawlFieldsInit /\ AuthFieldsInit /\ ComponentFieldsInit
    /\ raw_post = PlainPost
    /\ is_sponsored = "none"
    /\ post_object = SamplePost
    /\ scores = NotScored
    /\ norm_input \in NormInputs
    /\ normalized = <<>>
    /\ SleepFieldsInit

NormalizeNext == NormalizeAgain \/ Tick

NormalizeSpec == NormalizeInit /\ [][NormalizeNext]_vars

\* SleepSpec: every pause of the pacing code, for every duration it can be drawn
\* to last
SleepInit ==
    /\ max_posts_per_file = MaxPerFile
    /\ max_retries = MaxBackoffRetries
    /\ retry_delay = DefaultRetryDelay
    /\ remote = {}
    /\ StoreFieldsInit /\ CrawlFieldsInit /\ AuthFieldsInit /\ ComponentFieldsInit /\ PureFieldsInit

SleepNext == Pause

SleepSpec == SleepInit /\ [][SleepNext]_vars

\* CaptionSpec: _parse_post applied to every payload of CaptionPosts
CaptionInit ==
    /\ max_posts_per_file = MaxPerFile
    /\ max_retries = 0
    /\ retry_delay = 0
    /\ remote = {}
    /\ StoreFieldsInit /\ CrawlFieldsInit /\ AuthFieldsInit /\ PureFieldsInit
    /\ caption_post \in {p \in CaptionPosts : p.image_caption.none \/ p.has_image_versions2}
    /\ captions_out = NotParsed
    /\ BackoffFieldsInit /\ CollectFieldsInit /\ MonitorFieldsInit

CaptionNext == ParseCaptions

CaptionSpec == CaptionInit /\ [][CaptionNext]_vars

\* ServiceBackoffSpec: the backoff of FeedService and of UserService for every
\* retry_delay, max_retries and retry count
ServiceBackoffInit ==
    /\ max_posts_per_file = MaxPerFile
    /\ max_retries \in 0..MaxBackoffRetries
    /\ retry_delay \in 0..MaxRetryDelay
    /\ remote = {}
    /\ StoreFieldsInit /\ CrawlFieldsInit /\ AuthFieldsInit /\ ComponentFieldsInit
    /\ PureFieldsInit

ServiceBackoffNext == ServiceBackoff

ServiceBackoffSpec == ServiceBackoffInit /\ [][ServiceBackoffNext]_vars

\* CollectSpec: FeedService.collect_feed against a feed that serves any page
CollectInit ==
    /\ max_posts_per_file = MaxPerFile
    /\ max_retries \in {0, MaxRetries}
    /\ retry_delay = DefaultRetryDelay
    /\ remote = {}
    /\ StoreFieldsInit /\ CrawlFieldsInit /\ AuthFieldsInit /\ ComponentFieldsInit
    /\ PureFieldsInit

CollectNext == collect_feed \/ CollectPage

CollectSpec == CollectInit /\ [][CollectNext]_vars

\* MonitorSpec: start() and stop() called in any order while the loop threads run
MonitorInit ==
    /\ max_posts_per_file = MaxPerFile
    /\ max_retries = 0
    /\ retry_delay = 0
    /\ remote = {}
    /\ StoreFieldsInit /\ CrawlFieldsInit /\ AuthFieldsInit /\ ComponentFieldsInit
    /\ PureFieldsInit

MonitorNext ==
    \/ start
    \/ stop
    \/ \E t \in LoopThreads : LoopStep(t) \/ CheckAccountStep(t)
    \/ TickUtc

MonitorSpec == MonitorInit /\ [][MonitorNext]_vars

\* RateSpec: the monitor is started and not stopped, and check_now is called from
\* other threads, one call at a time
RateNext ==
    \/ start
    \/ check_now
    \/ \E t \in Threads : LoopStep(t) \/ CheckAccountStep(t)
    \/ TickUtc

RateSpec == MonitorInit /\ [][RateNext]_vars

Next == CrawlNext

Spec == Init /\ [][Next]_vars

\* AgainSpec: get_feed calls on one service instance, one after the other
AgainNext == Next \/ Return

AgainSpec == Init /\ [][AgainNext]_vars

\* the feed endpoint answers a page request with its last page: no items, or
\* items and no next_max_id
LastPage == PageOk /\ (page_answer' = "empty" \/ next_max_id' = NoCursor)

\* LiveSpec: get_feed with rate limiting, session expiry and errors on every
\* endpoint, without failures of the output file.  get_feed keeps running (no step
\* of it blocks for ever), and a feed that is asked for pages again and again
\* eventually answers with its last page.
LiveInit ==
    /\ max_posts_per_file = MaxPerFile
    /\ max_retries = MaxRetries
    /\ retry_delay = DefaultRetryDelay
    /\ remote = {"reliable_disk"}
    /\ StoreFieldsInit /\ CrawlFieldsInit /\ AuthFieldsInit /\ ComponentFieldsInit /\ PureFieldsInit

LiveSpec == LiveInit /\ [][Next]_vars /\ WF_vars(Next) /\ SF_vars(LastPage)

StoreSpec == StoreInit /\ [][StoreNext]_vars

\* InterruptSpec: the PostStore operations, the last of which may be stopped midway
InterruptSpec == StoreInit /\ [][InterruptNext]_vars

----------------------------------------------------------------------------
(* Claims about get_feed, checked under Spec *)

\* C1: the list returned by get_feed holds no two posts with the same post_id,
\* whatever pages the feed serves (items repeated inside a page or across pages).
C1_NoRepeatedPostId ==
    \A i, j \in 1..Len(all_posts) :
        i # j => all_posts[i].post_id # all_posts[j].post_id

\* C2: get_feed collects at most max_posts posts, and a step taken once max_posts
\* posts are collected issues no remote request.
C2_AtMostMaxPosts ==
    [][ /\ (pc' # "idle" => Len(all_posts') <= max_posts')
        /\ (pc # "idle" /\ Len(all_posts) >= max_posts => lastReq' = "none") ]_vars

\* get_feed returned with max_posts posts while more posts were queued
C2_Witness ==
    /\ pc = "done"
    /\ max_posts > 0
    /\ Len(all_posts) = max_posts
    /\ post_ids_to_process # <<>>

\* C3: each of the first max_retries rate-limit signals of the feed endpoint is
\* answered by one backoff sleep and a retry of the page request with the results
\* and the cursor kept; signal number max_retries + 1 ends the crawl without
\* raising, without a backoff, and with the posts collected so far as the result.
C3_ThrottledRetry ==
    [][ throttleSignals' = throttleSignals + 1 =>
          /\ all_posts' = all_posts
          /\ next_max_id' = next_max_id
          /\ IF throttleSignals' <= max_retries
             THEN pc' = "page" /\ Len(backoffs') = Len(backoffs) + 1
             ELSE pc' = "done" /\ backoffs' = backoffs ]_vars

\* the crawl was retried max_retries > 0 times, then abandoned with a post collected
C3_Witness ==
    /\ max_retries > 0
    /\ throttleSignals = max_retries + 1
    /\ Len(backoffs) = max_retries
    /\ pc = "done"
    /\ all_posts # <<>>

\* C4: a session-expired (LoginRequired) signal raised by any remote call of
\* get_feed ends the crawl with InstagramAuthError.
C4_SessionExpiredIsFatal == loginSignal => pc = "raised"

\* C5: when get_feed returns or raises, every post of its result list is in a
\* readable PostStore file.
C5_CollectedPostsAreStored ==
    pc \in {"done", "raised"} =>
        \A i \in 1..Len(all_posts) :
            \E f \in DOMAIN files :
                files[f].valid /\ all_posts[i] \in Range(files[f].posts)

\* C14: a payload of which _is_sponsored_post holds is never appended to the
\* result list nor written to a PostStore file, whichever fetch method supplied it.
C14_SponsoredNeverCollected ==
    [][ post_data.sponsored => (all_posts' = all_posts /\ files' = files) ]_vars

\* C22: a page request answered with a connection error or a generic client
\* error leaves retry_count, the cursor, the result list and processed_posts as
\* they were, and the crawl is about to request the page again (same cursor).
C22_PageErrorKeepsState ==
    [][ (pc = "page" /\ page_answer' \in {"ClientConnectionError", "ClientError"}) =>
          /\ retry_count' = retry_count
          /\ next_max_id' = next_max_id
          /\ all_posts' = all_posts
          /\ processed_posts' = processed_posts
          /\ pc' = "page" ]_vars

\* a page request failed with a connection error after a first page had been
\* collected from, so that cursor, result list and processed_posts are not empty
C22_Witness ==
    /\ pc = "page"
    /\ page_answer = "ClientConnectionError"
    /\ next_max_id # NoCursor
    /\ all_posts # <<>>
    /\ processed_posts # {}

\* C23: after a page answered without items the crawl is over, and after a page
\* answered with items but without a cursor the crawl is processing the queued
\* posts or is over: it is never about to issue another page request.
C23_LastPageEndsCrawl ==
    /\ page_answer = "empty" => pc = "done"
    /\ (page_answer = "items" /\ next_max_id = NoCursor) =>
          pc \in {"m1", "m2", "m3", "m4", "enrich", "collect", "done"}

C26_EveryCallPaced == ~unpaced_call

\* a step in which _fetch_single_post_info returns None because _is_sponsored_post
\* held of the item a mobile endpoint returned (the only way method 1 or 2 ends
\* the fetch without a payload)
SponsoredSkip ==
    /\ pc \in {"m1", "m2"}
    /\ pc' \notin {"m2", "m3", "enrich"}

\* C21: when a post is skipped as sponsored, its post_id is in processed_posts
\* afterwards (so that a later page serving it again does not queue it).
C21_SponsoredMarkedProcessed ==
    [][ SponsoredSkip => cur_post \in processed_posts' ]_vars

\* C32: the post_id of the record get_feed collects equals the id of the feed item
\* it was fetched for (the id added to processed_posts), whichever fetch method
\* supplied the payload.
C32_PostIdIsFeedItemId ==
    [][ (pc = "collect" /\ pc' # "collect") =>
          /\ all_posts'[Len(all_posts')].post_id = cur_post
          /\ cur_post \in processed_posts' ]_vars

\* C36: within one get_feed call retry_count never decreases and is never reset,
\* not even by a page request that succeeds, so the call makes at most
\* max_retries backoff sleeps even when the rate-limit signals are not consecutive.
C36_RetryCountNeverReset ==
    [][ /\ pc # "idle" => retry_count' >= retry_count
        /\ Len(backoffs') <= max_retries ]_vars

\* a page request succeeded after a rate-limit signal and its backoff, and the
\* retry count is still what the signal made it
C36_Witness ==
    /\ page_answer = "items"
    /\ retry_count = 1 /\ Len(backoffs) = 1 /\ max_retries = 1
    /\ pc \in {"m1", "page"}

----------------------------------------------------------------------------
(* Claims about the result of get_feed, checked under ResultSpec *)

\* C19: a payload that _parse_post cannot get through does not abort the crawl:
\* _parse_post returns a stub with the payload's post_id, an error marker and the
\* raw payload, get_feed appends it to its result and does not raise, and when
\* posts are queued and max_posts is not reached it goes on to the next queued post.
C19_ParseFailureIsStub ==
    [][ (pc = "collect" /\ ~post_data.parseable /\ pc' # "collect") =>
          LET stub == all_posts'[Len(all_posts')] IN
          /\ Len(all_posts') = Len(all_posts) + 1
          /\ stub.post_id = post_data.pk
          /\ "error" \in DOMAIN stub
          /\ "raw_data" \in DOMAIN stub /\ stub.raw_data = post_data
          /\ pc' # "raised"
          /\ (post_ids_to_process # <<>> /\ Len(all_posts') < max_posts) =>
                (pc' = "m1" /\ cur_post' = Head(post_ids_to_process)) ]_vars

\* a stub was collected and the post queued after it was collected as well
C19_Witness ==
    /\ Len(all_posts) = 2
    /\ "error" \in DOMAIN all_posts[1]
    /\ "shortcode" \in DOMAIN all_posts[2]
    /\ all_posts[2].shortcode # all_posts[1].raw_data.code

RECURSIVE IsSubsequence(_, _)
IsSubsequence(s, t) ==
    IF s = <<>> THEN TRUE
    ELSE IF t = <<>> THEN FALSE
    ELSE IF Head(s) = Head(t) THEN IsSubsequence(Tail(s), Tail(t))
    ELSE IsSubsequence(s, Tail(t))

PostIds(posts) == [i \in 1..Len(posts) |-> posts[i].post_id]

\* C20: the post ids of the list get_feed has built so far are, in order, a
\* subsequence of the ids of the media items the feed has served to this call
\* (page after page, each page in its own order).
C20_ResultInEncounterOrder == IsSubsequence(PostIds(all_posts), served)

----------------------------------------------------------------------------
(* Claims about PostStore, checked under StoreSpec *)

\* the calls made so far are n fault-free append_one calls on a fresh service
OnlyAppendOnes(n) ==
    /\ Len(hist) = n
    /\ \A i \in 1..n : hist[i].op = "append_one" /\ hist[i].fault = "none"

\* C6: max_posts_per_file + 1 append_one calls produce exactly 2 output files, the
\* first holding max_posts_per_file posts and the second holding 1.
C6_AppendOneRotates ==
    OnlyAppendOnes(max_posts_per_file + 1) =>
        /\ Cardinality(DOMAIN files) = 2
        /\ \E f, g \in DOMAIN files :
              /\ f # g
              /\ Len(files[f].posts) = max_posts_per_file
              /\ Len(files[g].posts) = 1

\* C7: no append, rotation or initialization that runs without an I/O fault removes
\* or changes a post already written: each file stays, and its previous posts array
\* is a prefix of its new one.
C7_AppendOnly ==
    [][ lastFault' = "none" =>
          \A f \in DOMAIN files :
              /\ f \in DOMAIN files'
              /\ IsPrefix(files[f].posts, files'[f].posts) ]_vars

\* the calls made so far are _save_posts calls on a fresh service
OnlySavePosts == \A i \in 1..Len(hist) : hist[i].op = "append"

\* C27: after any sequence of _save_posts calls no output file holds more than
\* max_posts_per_file posts, and posts_in_current_file is at most max_posts_per_file.
C27_FilesWithinCap ==
    OnlySavePosts =>
        /\ \A f \in DOMAIN files : Len(files[f].posts) <= max_posts_per_file
        /\ posts_in_current_file <= max_posts_per_file

\* C28: when the process is stopped inside append_one or append, every output
\* file that was valid JSON still is and still starts with the posts it held, and
\* the current output file is valid JSON.
C28_InterruptLeavesValidFile ==
    [][ (hist' # hist /\ hist'[Len(hist')].op = "interrupted") =>
          /\ \A f \in DOMAIN files :
                files[f].valid =>
                    /\ f \in DOMAIN files'
                    /\ files'[f].valid
                    /\ IsPrefix(files[f].posts, files'[f].posts)
          /\ current_file' \in DOMAIN files' /\ files'[current_file'].valid ]_vars

\* C8: when reading or rewriting the current file fails during append_one or
\* append, the call does not raise and the posts it was given are in a fallback file.
C8_FallbackOnFailure ==
    (hist # <<>> /\ lastFault # "none") =>
        /\ ~storeRaised
        /\ \E f \in DOMAIN files :
              /\ f[1] = "fallback"
              /\ files[f].valid
              /\ Range(lastBatch) \subseteq Range(files[f].posts)

----------------------------------------------------------------------------
(* Claim about the backoff, checked under BackoffSpec *)

\* C9: the backoff slept on the first rate-limit signal is retry_delay and each
\* later one is twice the one before (retry_delay * 2^(retry_count - 1) for
\* retry_count = 1..N), so for retry_delay > 0 the durations strictly increase.
C9_ExponentialBackoff ==
    \A i \in 1..Len(backoffs) :
        /\ i = 1 => backoffs[i] = retry_delay
        /\ i > 1 => /\ backoffs[i] = 2 * backoffs[i - 1]
                    /\ retry_delay > 0 => backoffs[i] > backoffs[i - 1]

\* three backoffs of a positive retry_delay were slept
C9_Witness == retry_delay > 0 /\ Len(backoffs) >= 3

----------------------------------------------------------------------------
(* Claim about the session files, checked under AuthSpec *)

PrimaryUnusable == ~session_file.exists \/ ~session_file.valid

\* f is the most recently modified file of the backup directory
IsNewest(f) ==
    /\ f \in DOMAIN backup_files
    /\ \A g \in DOMAIN backup_files : backup_files[g].mtime <= backup_files[f].mtime

\* C10 as stated: with the primary session file missing or corrupt and at least one
\* backup file present, _load_session returns the contents of the most recently
\* modified backup and does not fail.
C10_RecoversWheneverBackupExists ==
    [][ (authHist'.last = "load" /\ PrimaryUnusable /\ DOMAIN backup_files # {}) =>
          /\ loaded' # NoSession
          /\ \E f \in DOMAIN backup_files :
                IsNewest(f) /\ loaded' = backup_files[f].data ]_vars

\* C10 as amended: with the primary session file missing or corrupt and at least one
\* backup file present, _load_session returns the contents of the most recently
\* modified backup when that backup is valid JSON, and returns None when it is
\* not; older backups are not tried.
C10_RecoversFromLatestBackup ==
    [][ (authHist'.last = "load" /\ PrimaryUnusable /\ DOMAIN backup_files # {}) =>
          \E f \in DOMAIN backup_files :
              /\ IsNewest(f)
              /\ IF backup_files[f].valid
                 THEN loaded' # NoSession /\ loaded' = backup_files[f].data
                 ELSE loaded' = NoSession ]_vars

\* a session was recovered from the newest of two backups holding different
\* sessions while the primary file was corrupt
C10_Witness ==
    /\ authHist.last = "load"
    /\ session_file.exists /\ ~session_file.valid
    /\ \E f, g \in DOMAIN backup_files :
          /\ backup_files[f].valid /\ backup_files[g].valid
          /\ backup_files[f].data # backup_files[g].data
          /\ backup_files[f].mtime < backup_files[g].mtime
          /\ loaded = backup_files[g].data

\* neither the primary session file nor any backup file exists
NoSessionFiles == ~session_file.exists /\ DOMAIN backup_files = {}

\* C11 as stated: with neither the primary session file nor any backup file,
\* loading the session ends in a SessionError, which login_with_session survives
\* by returning False to its caller.
C11_AbsentFilesGiveSessionError ==
    [][ (authHist'.last = "login_with_session" /\ NoSessionFiles) =>
          /\ loaded' = SessionErrorRaised
          /\ login_result' = "False" ]_vars

\* C11 as amended: with neither the primary session file nor any backup file,
\* _load_session returns None and raises nothing, and login_with_session returns
\* False without contacting Instagram and without touching the client's settings
\* or the session files, which leaves re-authentication to its caller.
C11_AbsentFilesGiveNoSession ==
    [][ (authHist'.last \in {"load", "login_with_session"} /\ NoSessionFiles) =>
          /\ loaded' = NoSession
          /\ authHist'.last = "login_with_session" =>
                /\ login_result' = "False"
                /\ ~auth_requests'
                /\ UNCHANGED <<client_session, session_file, backup_files>> ]_vars

\* login_with_session has returned False on an empty session store
C11_Witness ==
    /\ authHist.last = "login_with_session"
    /\ NoSessionFiles
    /\ loaded = NoSession
    /\ login_result = "False"

\* C12: after logout() the content of the primary session file is in a file of the
\* backup directory, and no _save_session or logout removes a backup file or
\* changes what it holds, also when two calls run within the same clock second.
C12_SessionDataNeverDestroyed ==
    [][ /\ \A f \in DOMAIN backup_files :
              /\ f \in DOMAIN backup_files'
              /\ backup_files'[f].valid = backup_files[f].valid
              /\ backup_files'[f].data = backup_files[f].data
        /\ (authHist'.last = "logout" /\ session_file.exists /\ ~session_file'.exists) =>
              \E f \in DOMAIN backup_files' :
                  /\ backup_files'[f].valid = session_file.valid
                  /\ backup_files'[f].data = session_file.data ]_vars

\* logout() has moved the primary file away and no login has saved a session since
LoggedOut ==
    /\ ~session_file.exists
    /\ \E f \in DOMAIN backup_files : f[1] = "session_logout"

\* C40 as stated: after logout() and with no new login, _load_session recovers
\* from the backup directory, the copy made by logout included, and returns a
\* session whenever any such file exists.
C40_LoadAfterLogoutReturnsSession ==
    [][ (authHist'.last = "load" /\ LoggedOut) => loaded' # NoSession ]_vars

\* C40 as amended: after logout() and with no new login, _load_session recovers
\* from the most recently modified file of the backup directory, the copy made by
\* logout included: it returns the session that file holds when the file is
\* valid JSON, and None when it is not.
C40_LoadAfterLogoutReadsNewestFile ==
    [][ (authHist'.last = "load" /\ LoggedOut) =>
          \E f \in DOMAIN backup_files :
              /\ IsNewest(f)
              /\ loaded' = IF backup_files[f].valid THEN backup_files[f].data
                            ELSE NoSession
              /\ backup_files[f].valid => loaded' # NoSession ]_vars

\* the session just logged out was loaded again from the copy logout made
C40_Witness ==
    /\ authHist.last = "load"
    /\ LoggedOut
    /\ \E f \in DOMAIN backup_files :
          /\ f[1] = "session_logout"
          /\ IsNewest(f)
          /\ loaded = backup_files[f].data
          /\ loaded = client_session

----------------------------------------------------------------------------
(* Claims about _is_sponsored_post, checked under SponsorSpec *)

SignalNames == {"ad flag", "paid-partnership flag", "ad id", "ad action", "ad link type",
                "branded-content tag", "sponsor tags", "ad-display-context",
                "commerce-promotion", "PAID_PARTNERSHIP label", "shopping tags"}

\* the sponsorship signals of a raw post, except the commerce-promotion one
SignalSet(k, p) ==
    CASE k = "ad flag" -> p["is_ad"] = "truthy"
      [] k = "paid-partnership flag" -> p["is_paid_partnership"] = "truthy"
      [] k = "ad id" -> p["injected"] = "ad_id" \/ p["ad_id"] = "truthy"
      [] k = "ad action" -> p["ad_action"] = "truthy"
      [] k = "ad link type" -> p["ad_link_type"] = "truthy"
      [] k = "branded-content tag" -> p["branded_content_tag_info"] = "truthy"
      [] k = "sponsor tags" -> p["sponsor_tags"] = "truthy"
      [] k = "ad-display-context" -> p["ad_display_context"] \in {"falsy", "truthy"}
      [] k = "PAID_PARTNERSHIP label" -> p["label_type"] = "PAID_PARTNERSHIP"
      [] k = "shopping tags" -> /\ p["product_tags"] = "in_4"
                                /\ p["shopping_product_tags"] = "truthy"
      [] OTHER -> FALSE

\* the signals as the claim words them: the commerce-promotion field is present
SignalsAsStated(p) ==
    {k \in SignalNames :
        \/ SignalSet(k, p)
        \/ k = "commerce-promotion" /\ p["commerce_promotion"] \in {"falsy", "truthy"}}

\* the signals with a commerce-promotion field that holds a non-empty value
SignalsAsAmended(p) ==
    {k \in SignalNames :
        \/ SignalSet(k, p)
        \/ k = "commerce-promotion" /\ p["commerce_promotion"] = "truthy"}

----------------------------------------------------------------------------
(* Claims about PostScorer, checked under ScoreSpec; scores are in thousandths *)

ComponentNames == {"user_signal", "content_signal", "keyword_relevance",
                   "engagement_ratio", "recency"}

\* C15: for every post with follower_count > 0 and engagement_count >= 0 (any
\* flags, caption present or absent, any age) score_post returns, each of the five
\* component scores and final_score lie in [0, 1], and the five weights sum to 1.
C15_ScoresInUnitInterval ==
    (scores.status # "none" /\ post_object.follower_count > 0
                            /\ post_object.engagement_count >= 0) =>
        /\ scores.status = "returned"
        /\ \A c \in ComponentNames :
              scores.component_scores[c] >= 0 /\ scores.component_scores[c] <= 1000
        /\ scores.final_score >= 0 /\ scores.final_score <= 1000
        /\ weights.user_signal + weights.content_signal + weights.keyword_relevance
             + weights.engagement_ratio + weights.recency = 1000

\* the lowest score was given: a verified author, no caption, no keywords, low
\* engagement, older than 30 days
C15_Witness ==
    /\ scores.status = "returned"
    /\ post_object.caption = None
    /\ post_object.days_old > 30
    /\ scores.final_score = 230

\* the caption holds a date, a time, an address or an event keyword
HasEventPhrase(caption) ==
    /\ ~caption.none
    /\ \E i \in 1..Len(caption.value) :
          caption.value[i] \in {"12/25/2024", "7:30 PM", "123 Main Street", "workshop"}

\* C16: a post of a close-friend, unverified author whose caption contains event
\* indicators, with engagement_count = 1000, follower_count = 10000 and
\* created_at = now, scores user 1.0, content 1.0, keyword 1.0, engagement 0.8,
\* recency 1.0 and final_score 0.97.
C16_SampleScore ==
    (/\ scores.status # "none"
     /\ post_object.is_close_friend /\ ~post_object.is_verified
     /\ HasEventPhrase(post_object.caption)
     /\ post_object.engagement_count = 1000 /\ post_object.follower_count = 10000
     /\ post_object.days_old = 0 /\ ~post_object.near_next_day) =>
        /\ scores.status = "returned"
        /\ scores.component_scores =
              [user_signal |-> 1000, content_signal |-> 1000, keyword_relevance |-> 1000,
               engagement_ratio |-> 800, recency |-> 1000]
        /\ scores.final_score = 970

\* the sample post of the __main__ block was scored 0.97
C16_Witness ==
    /\ scores.status = "returned"
    /\ post_object.is_close_friend /\ ~post_object.is_verified
    /\ post_object.caption = Some(SampleCaption)
    /\ post_object.engagement_count = 1000 /\ post_object.follower_count = 10000
    /\ post_object.days_old = 0 /\ ~post_object.near_next_day
    /\ scores.final_score = 970

\* C17: for a post with follower_count = 0 score_post raises no division error: it
\* returns with engagement_ratio 0.2 and, when there is no caption, content_signal 0.2.
C17_ZeroFollowersGuarded ==
    (scores.status # "none" /\ post_object.follower_count = 0) =>
        /\ scores.status = "returned"
        /\ scores.component_scores.engagement_ratio = 200
        /\ ~NonEmpty(post_object.caption) => scores.component_scores.content_signal = 200

\* C39: for a post with a non-empty caption that score_post scores,
\* keyword_relevance is 1.0 or 0.2 and never 0.8, and has_event_indicators has been
\* set to true exactly when the extracted keyword list is non-empty.
C39_KeywordRelevanceNeverMiddle ==
    (scores.status = "returned" /\ NonEmpty(post_object.caption)) =>
        /\ scores.component_scores.keyword_relevance \in {1000, 200}
        /\ post_object.has_event_indicators <=> NonEmpty(post_object.event_keywords)
        /\ scores.component_scores.keyword_relevance =
              IF NonEmpty(post_object.event_keywords) THEN 1000 ELSE 200

\* a caption with an event keyword was scored 1.0
C39_Witness ==
    /\ scores.status = "returned"
    /\ post_object.caption = Some(<<"workshop">>)
    /\ post_object.event_keywords = Some(<<"workshop">>)
    /\ scores.component_scores.keyword_relevance = 1000

\* C31: score_post is a pure function: the call leaves every field of the Post it
\* is given unchanged, and the post as the call leaves it scores the same as the
\* post it was given when scored at the same clock time.
C31_ScorePostIsPure ==
    [][ scores' # scores =>
          /\ post_object' = post_object
          /\ \A d \in Ages : score_post(post_object', d, d) = score_post(post_object, d, d) ]_vars

----------------------------------------------------------------------------
(* Claim about the normalizer, checked under NormalizeSpec *)

\* C18: normalizing the same raw payload twice yields identical records, for
\* _parse_post and for _convert_web_to_api_format followed by _parse_post, at
\* whatever clock times the two calls run.
C18_NormalizeTwiceSame ==
    Len(normalized) = 2 => normalized[1] = normalized[2]

----------------------------------------------------------------------------
(* Claim about the accessibility captions, checked under CaptionSpec *)

\* the texts of the accessibility captions present in the raw payload: top-level,
\* image-level, and item-level and image-level of every carousel item
PresentCaptions(p) ==
    LET own == {p.accessibility_caption, p.image_caption}
        items == IF p.carousel_media.none THEN {}
                 ELSE UNION {{it.accessibility_caption, it.image_caption} :
                             it \in Range(p.carousel_media.value)}
    IN {c.value : c \in {o \in own \cup items : IsSet(o)}}

\* C33: for an album post the accessibility_captions list of the normalized
\* record contains every accessibility caption present in the raw payload: the
\* top-level one, the image-level one and every carousel item's two.
C33_AlbumCaptionsComplete ==
    (captions_out.status = "returned" /\ caption_post.media_type = 8) =>
        PresentCaptions(caption_post) \subseteq Range(captions_out.value)

----------------------------------------------------------------------------
(* Claim about the backoff of FeedService and UserService, checked under *)
(* ServiceBackoffSpec                                                     *)

\* C34: on the retry with retry_count = n (n >= 1) FeedService and UserService
\* sleep retry_delay * 2^(n-1) seconds, the duration DirectFeedService sleeps
\* for the same n.
C34_ServicesBackOffAsSpecified ==
    service_sleep.service # "none" =>
        /\ service_sleep.seconds = retry_delay * (2 ^ (service_sleep.retry_count - 1))
        /\ service_sleep.seconds = _handle_rate_limit(service_sleep.retry_count)

----------------------------------------------------------------------------
(* Claim about FeedService.collect_feed, checked under CollectSpec *)

\* C35: collect_feed called with max_posts = N (N >= 1) parses and saves at most
\* N posts over the whole call, whatever the page sizes.
C35_CollectFeedAtMostMaxPosts ==
    (collect_pc # "idle" /\ collect_max_posts >= 1) =>
        /\ posts_collected <= collect_max_posts
        /\ posts_saved <= collect_max_posts

----------------------------------------------------------------------------
(* Claims about InstagramMonitor, checked under MonitorSpec and RateSpec *)

\* C37: after any interleaving of start() and stop() calls at most one
\* _monitor_loop thread is inside the loop: a thread that outlived stop()'s join
\* is not in the loop body together with the thread of a later start().
C37_AtMostOneLoopThread ==
    Cardinality({t \in LoopThreads :
                    thread_pc[t] \in {"body", "check", "load", "store", "wait", "request",
                                      "sleep"}}) <= 1

\* C38: _request_count never exceeds _max_requests_per_window, and _check_account
\* issues at most _max_requests_per_window requests within one rate-limit window,
\* also when it runs on the monitor thread and on the thread of a check_now call.
C38_RequestsWithinRateLimit ==
    /\ _request_count <= _max_requests_per_window
    /\ window_requests <= _max_requests_per_window

----------------------------------------------------------------------------
(* Claims about successive get_feed calls, checked under AgainSpec *)

\* C30: whenever a get_feed call can start, the in-memory state it reads before
\* writing it is that of a fresh instance: processed_posts is empty (so that a
\* post returned by an earlier call is queued and returned again).
C30_EveryCallStartsFresh == pc = "idle" => processed_posts = {}

----------------------------------------------------------------------------
(* Claims about sessions older than 24 hours, checked under StaleSpec *)

\* C29: when login_with_session finds the stored session older than 24 hours, the
\* first remote call it makes is the refresh (login_flow), not a request that uses
\* the session.
C29_StaleSessionRefreshedFirst == loaded_stale => login_first_call = "login_flow"

----------------------------------------------------------------------------
(* Claims about the pacing code, checked under SleepSpec *)

RECURSIVE SumSeq(_)
SumSeq(q) == IF q = <<>> THEN 0 ELSE Head(q) + SumSeq(Tail(q))

\* C25: no time.sleep call made for a pause lasts longer than 15 seconds, and the
\* calls made for a pause add up to the seconds the pause was to last.
C25_SleepsAreChunked ==
    /\ \A i \in 1..Len(sleeps) : sleeps[i] <= 15
    /\ SumSeq(sleeps) = pause.seconds

====
